---- MODULE Spec2Model ----
(***************************************************************************)
(* The persona page (ChannelPersona) of the dashboard: plan generation,    *)
(* the 30-day plan export (exportPlanToPdf) with its reference matcher     *)
(* (getRefMessage), the message bubble (drawTelegramBubble) and the        *)
(* persona export (exportPersonaToPdf).                                    *)
(*                                                                         *)
(* Lengths are integers in units of half a millimetre: the source works in *)
(* millimetres with halves (3.5, 4.5, 2.5), so every source length L is    *)
(* written 2 * L here.                                                     *)
(*                                                                         *)
(* A text is a sequence of integer tokens: n > 0 is a run of glyphs that   *)
(* is n units wide, 0 is one space, -1 is one character of the ranges that *)
(* stripEmoji removes.  The empty sequence is the empty (or missing)       *)
(* string.                                                                 *)
(***************************************************************************)
EXTENDS Integers, Sequences, FiniteSets, TLC

\* ------------------------------------------------------------------ bounds
\* Longest daily_plan the plan endpoint returns (besides the two-week scenario).
MaxDays == 2

\* ------------------------------------------------------- values and truthiness
Null == <<>>
Some(v) == <<v>>
Val(o) == o[1]

\* post.ref of a post that has no ref property.
NoRef == -1

\* JavaScript truthiness of a number-or-undefined property (0 is falsy).
TruthyNum(n) == n # NoRef /\ n # 0

Max(a, b) == IF a >= b THEN a ELSE b
Min(a, b) == IF a <= b THEN a ELSE b

Range(s) == {s[i] : i \in 1..Len(s)}

RECURSIVE SumSeq(_)
SumSeq(s) == IF s = <<>> THEN 0 ELSE Head(s) + SumSeq(Tail(s))

\* ------------------------------------------------------------------ text
\* str.replace(/[emoji ranges]/gu, '')
stripEmoji(str) == SelectSeq(str, LAMBDA t : t # -1)

RECURSIVE TrimLeft(_)
TrimLeft(s) == IF s # <<>> /\ Head(s) = 0 THEN TrimLeft(Tail(s)) ELSE s

RECURSIVE TrimRight(_)
TrimRight(s) ==
    IF s # <<>> /\ s[Len(s)] = 0 THEN TrimRight(SubSeq(s, 1, Len(s) - 1)) ELSE s

\* String.prototype.trim
Trim(s) == TrimRight(TrimLeft(s))

\* Width of a space in the wrapped font.
SpaceW == 2

\* Width the wrapped font gives a character it has no glyph for (an emoji).
EmojiW == 6

\* text.split(' ') : the widths of the words; two adjacent spaces enclose an
\* empty word, adjacent glyph runs form one word.
RECURSIVE SplitWords(_, _)
SplitWords(s, cur) ==
    IF s = <<>> THEN <<cur>>
    ELSE IF Head(s) = 0 THEN <<cur>> \o SplitWords(Tail(s), 0)
    ELSE SplitWords(Tail(s), cur + (IF Head(s) = -1 THEN EmojiW ELSE Head(s)))

\* The pieces of a word wider than a line: the first fills what is left of the
\* current line, the others are full lines and a remainder.
RECURSIVE Chunks(_, _)
Chunks(w, maxlen) ==
    IF w <= maxlen THEN <<w>> ELSE <<maxlen>> \o Chunks(w - maxlen, maxlen)

\* jsPDF's line filling: a word goes on the current line when it fits after a
\* separator, else it opens a new line.  lines is a sequence of lines, each
\* the sequence of the widths of its words.
RECURSIVE FillLines(_, _, _, _, _)
FillWord(words, lines, lineLen, sep, maxlen) ==
    IF words = <<>> THEN lines
    ELSE LET w == Head(words)
             n == Len(lines)
         IN IF lineLen + sep + w > maxlen
            THEN IF w > maxlen
                 THEN LET room == Max(maxlen - (lineLen + sep), 0)
                          first == Min(room, w)
                          rest == Chunks(w - first, maxlen)
                          added == [i \in 1..Len(rest) |-> <<rest[i]>>]
                      IN FillLines(Tail(words),
                                   [lines EXCEPT ![n] = Append(@, first)] \o added,
                                   rest[Len(rest)], SpaceW, maxlen)
                 ELSE FillLines(Tail(words), Append(lines, <<w>>), w, SpaceW, maxlen)
            ELSE FillLines(Tail(words), [lines EXCEPT ![n] = Append(@, w)],
                           lineLen + sep + w, SpaceW, maxlen)

\* One round of the loop over the words, on the values the round before left.
FillLines(words, lines, lineLen, sep, maxlen) ==
    CHOOSE out \in { FillWord(a[1], a[2], a[3], a[4], maxlen) :
                       a \in {<<words, lines, lineLen, sep>>} } : TRUE

\* doc.splitTextToSize(text, maxlen): the lines of the wrapped text.
splitTextToSize(text, maxlen) == FillLines(SplitWords(text, 0), << <<>> >>, 0, 0, maxlen)

\* n words of width w separated by single spaces.
WordsOf(n, w) == [i \in 1..(2 * n - 1) |-> IF i % 2 = 1 THEN w ELSE 0]

\* ------------------------------------------------------------------ page geometry
\* new jsPDF({ orientation: 'portrait', unit: 'mm', format: 'a4' }): 297 x 210 mm.
PageHeight == 594
PageWidth == 420
\* const margin = 15
margin == 30
contentWidth == PageWidth - margin * 2
\* let y = 20
TopStart == 40
\* doc.internal.pageSize.getHeight() - 15
BottomLimit == PageHeight - 30
\* Height of the printable area.
Printable == BottomLimit - TopStart

\* ------------------------------------------------------------------ messages
ShortText == WordsOf(3, 40)
MediumText == WordsOf(3, 200)
LongText == WordsOf(10, 200)
EmojiText == <<-1, 40, 0, -1, 0, 40, -1>>
EmojiOnly == <<-1, 0, -1>>
\* Fills one line of a bubble once its emoji are stripped, two with them.
EmojiWide == <<-1, 160, 0, 160, -1>>
BlankText == <<0, 0>>
SomeName == <<50>>

\* msg.views_count of a message that has no views_count property.
NoViews == -1

\* reactions_json is "" (missing), "[]", "[r,r]" (two reactions), "{bad" (not JSON)
\* or "null" (JSON, but not an array).
\* views_count is NoViews when the property is missing.
Message(ct, txt, fwd, rj, ri, vc) ==
    [content_type |-> ct, text_content |-> txt, forward_from |-> fwd,
     reactions_json |-> rj, ref_index |-> ri, views_count |-> vc]

\* The messages, by id: 1..8 are messages of the channel feed
\* (GET /messages/feed/:id), 11..14 entries of a plan response's
\* reference_messages.
Msg(id) ==
    CASE id = 1 -> Message("text", EmojiWide, <<>>, "", NoRef, 999)
      [] id = 2 -> Message("text", LongText, SomeName, "[r,r]", NoRef, 1000)
      [] id = 3 -> Message("photo", LongText, SomeName, "[r,r]", NoRef, 2500000)
      [] id = 4 -> Message("", MediumText, <<>>, "{bad", NoRef, NoViews)
      [] id = 5 -> Message("video", EmojiOnly, <<>>, "[]", NoRef, 0)
      [] id = 6 -> Message("text", BlankText, <<>>, "", NoRef, 1500)
      [] id = 7 -> Message("photo", <<>>, SomeName, "[r,r]", NoRef, 1000000)
      [] id = 8 -> Message("text", ShortText, <<>>, "null", NoRef, 10)
      [] id = 11 -> Message("photo", ShortText, <<>>, "[r,r]", 1, 1000000)
      [] id = 12 -> Message("text", LongText, <<>>, "", 2, 999999)
      [] id = 13 -> Message("video", EmojiText, SomeName, "[]", 0, 1250)
      [] id = 14 -> Message("text", MediumText, <<>>, "{bad", 1, 1049)

\* What the feed endpoint may return in feedResp.data.messages.
Feeds == { <<1, 2, 4, 5>>, <<3, 6, 1, 7>>, <<5, 3>>, <<6, 7>> }
\* The feeds of the back end "archive", and those of the back end "legacy",
\* which stored the reactions of some messages as the JSON text null.
ArchiveFeeds == { <<2, 5>>, <<6, 7>> }
LegacyFeeds == { <<2, 5>>, <<8, 5>> }
FeedsOf(srv) ==
    CASE srv = "archive" -> ArchiveFeeds
      [] srv = "legacy" -> LegacyFeeds
      [] OTHER -> Feeds

\* JSON.parse(msg.reactions_json) when it yields an array.
ParseReactions(json) == IF json = "[r,r]" THEN <<"r", "r">> ELSE <<>>
\* Whether JSON.parse accepts the string.
IsJson(json) == json \in {"[]", "[r,r]", "null"}
\* JSON.parse('null') is null, and reactions.length is read outside the try:
\* a TypeError.
ReactionsThrow(msg) == msg.reactions_json = "null"

\* ------------------------------------------------------------------ drawTelegramBubble
\* const pad = 3
pad == 6

\* let reactions = []; try { if (msg.reactions_json) reactions = JSON.parse(...) } catch {}
BubbleReactions(msg) ==
    IF msg.reactions_json # "" /\ IsJson(msg.reactions_json)
    THEN ParseReactions(msg.reactions_json)
    ELSE <<>>

\* The text as it came, neither stripped nor trimmed.
UnsanitizedText(msg) == msg.text_content

\* const cleanText = stripEmoji(msg.text_content).trim()
CleanText(msg) == Trim(stripEmoji(msg.text_content))

\* let textLines = []; if (cleanText) textLines = doc.splitTextToSize(cleanText, inner)
BubbleTextLines(msg, width) ==
    IF CleanText(msg) # <<>> THEN splitTextToSize(CleanText(msg), width - pad * 2) ELSE <<>>

HasTypeLabel(msg) == msg.content_type # "" /\ msg.content_type # "text"

\* A measuring phase that forgets the ellipsis line.
MeasureWithoutEllipsis(msg, textLines, reactions) ==
    pad + 10
    + (IF HasTypeLabel(msg) THEN 8 ELSE 0)
    + (IF msg.forward_from # <<>> THEN 8 ELSE 0)
    + (IF CleanText(msg) # <<>> THEN Min(Len(textLines), 8) * 7 ELSE 0)
    + (IF Len(reactions) > 0 THEN 9 ELSE 0)
    + 10 + pad

\* Phase 1: the measured height h.
MeasureBubble(msg, textLines, reactions) ==
    pad
    + 10
    + (IF HasTypeLabel(msg) THEN 8 ELSE 0)
    + (IF msg.forward_from # <<>> THEN 8 ELSE 0)
    + (IF CleanText(msg) # <<>>
       THEN Min(Len(textLines), 8) * 7 + (IF Len(textLines) > 8 THEN 7 ELSE 0)
       ELSE 0)
    + (IF Len(reactions) > 0 THEN 9 ELSE 0)
    + 10
    + pad

\* A drawing phase without the eight-line cap of the measuring phase.
DrawnAllTextLines(textLines) == Len(textLines)

\* const maxLines = Math.min(textLines.length, 8)
DrawnTextLines(textLines) == Min(Len(textLines), 8)

Line(kind, base) == [kind |-> kind, base |-> base]

\* Phase 3: the lines drawn, each with the baseline doc.text is given, in
\* drawing order; cy is advanced as the source advances it.
DrawBubbleLines(msg, textLines, reactions, y) ==
    LET cy0 == y + pad
        name == <<Line("name", cy0 + 6)>>
        cy1 == cy0 + 10
        type == IF HasTypeLabel(msg) THEN <<Line("type", cy1 + 5)>> ELSE <<>>
        cy2 == IF HasTypeLabel(msg) THEN cy1 + 8 ELSE cy1
        fwd == IF msg.forward_from # <<>> THEN <<Line("forward", cy2 + 5)>> ELSE <<>>
        cy3 == IF msg.forward_from # <<>> THEN cy2 + 8 ELSE cy2
        hasText == CleanText(msg) # <<>>
        maxLines == IF hasText THEN DrawnTextLines(textLines) ELSE 0
        text == [i \in 1..maxLines |-> Line("text", cy3 + (i - 1) * 7 + 6)]
        cy4 == cy3 + maxLines * 7
        more == hasText /\ Len(textLines) > 8
        dots == IF more THEN <<Line("ellipsis", cy4 + 6)>> ELSE <<>>
        cy5 == IF more THEN cy4 + 7 ELSE cy4
        hasReact == Len(reactions) > 0
        react == IF hasReact THEN <<Line("reactions", cy5 + 2 + 5)>> ELSE <<>>
        cy6 == IF hasReact THEN cy5 + 2 + 7 ELSE cy5
        foot == <<Line("footer", cy6 + 2 + 5)>>
    IN name \o type \o fwd \o text \o dots \o react \o foot

\* A number as displayed: the integer part, the decimal (Null when none is
\* shown) and the suffix.
Shown(whole, tenth, suffix) == [whole |-> whole, tenth |-> tenth, suffix |-> suffix]
NothingShown == Shown(0, Null, "")

\* (n / div).toFixed(1): n / div rounded to the nearest tenth, a half-way
\* value that the division gives exactly going up.
toFixed1(n, div, suffix) ==
    LET tenths == (10 * n + div \div 2) \div div
    IN Shown(tenths \div 10, Some(tenths % 10), suffix)

\* const views = msg.views_count >= 1000 ? `${(msg.views_count / 1000).toFixed(1)}K views`
\*                                        : `${msg.views_count || 0} views`
BubbleViews(msg) ==
    IF msg.views_count # NoViews /\ msg.views_count >= 1000
    THEN toFixed1(msg.views_count, 1000, "K")
    ELSE Shown(IF msg.views_count # NoViews THEN msg.views_count ELSE 0, Null, "")

\* drawTelegramBubble(doc, msg, x, y, width, channelTitle), m the id of msg
\* (0: null): the height returned, the rectangle drawn and the lines drawn.
drawTelegramBubble(m, y, width) ==
    IF m = 0 THEN [h |-> 0, rectTop |-> 0, rectH |-> 0, lines |-> <<>>, views |-> NothingShown]
    ELSE LET msg == Msg(m)
             textLines == BubbleTextLines(msg, width)
             reactions == BubbleReactions(msg)
             h == MeasureBubble(msg, textLines, reactions)
         IN [h |-> h, rectTop |-> y, rectH |-> h,
             lines |-> DrawBubbleLines(msg, textLines, reactions, y),
             views |-> BubbleViews(msg)]

\* ------------------------------------------------------------------ plans
BriefShort == WordsOf(3, 40)
BriefLong == WordsOf(15, 300)
CtaText == WordsOf(2, 40)
SummaryShort == WordsOf(5, 60)
SummaryLong == WordsOf(12, 300)
KpiText == WordsOf(2, 40)

\* A PlannedPost; type "" and ref NoRef are missing properties, an empty text
\* is a missing or empty string.
Post(type, ref, brief, topic, cta) ==
    [type |-> type, ref |-> ref, content_brief |-> brief, topic |-> topic, cta |-> cta]

\* The posts of one day, as the plan endpoint may return them.
DayText ==
    << Post("text", NoRef, BriefShort, <<>>, <<>>),
       Post("text", NoRef, <<>>, BriefShort, CtaText) >>
DayMedia ==
    << Post("photo", NoRef, BriefLong, <<>>, CtaText),
       Post("video", NoRef, BriefShort, <<>>, <<>>) >>
DayExplicit ==
    << Post("", 1, BriefShort, <<>>, <<>>),
       Post("video", 0, BriefShort, <<>>, CtaText) >>
DayMixed ==
    << Post("photo", 2, <<>>, <<>>, <<>>),
       Post("text", 7, BriefLong, <<>>, CtaText) >>
DayChoices == { <<>>, DayText, DayMedia, DayExplicit, DayMixed }

\* The parts of a plan response around the days: summary, weekly themes (their
\* week numbers), KPIs and the reference_messages sent with the plan.
FrameBare ==
    [plan_summary |-> <<>>, weekly_themes |-> <<>>, kpis |-> <<>>,
     reference_messages |-> Null]
FrameShort ==
    [plan_summary |-> SummaryShort, weekly_themes |-> <<1, 2>>,
     kpis |-> <<KpiText, KpiText>>, reference_messages |-> Some(<<11, 12>>)]
FrameLong ==
    [plan_summary |-> SummaryLong, weekly_themes |-> <<1, 2, 3, 4>>,
     kpis |-> <<KpiText, KpiText, KpiText>>,
     reference_messages |-> Some(<<13, 14, 11>>)]
Frames == { FrameBare, FrameShort, FrameLong }

\* A plan without days whose KPI list is longer than a page.
ManyKpis == 25
FrameKpis ==
    [plan_summary |-> SummaryLong, weekly_themes |-> <<1, 2, 3, 4>>,
     kpis |-> [i \in 1..ManyKpis |-> KpiText], reference_messages |-> Null]

Plan(frame, days) ==
    [plan_summary |-> frame.plan_summary, weekly_themes |-> frame.weekly_themes,
     daily_plan |-> [i \in 1..Len(days) |-> [day |-> i, posts |-> days[i]]],
     kpis |-> frame.kpis]

PlanResponse(status, error, plan, refs) ==
    [status |-> status, error |-> error, plan |-> plan, reference_messages |-> refs]

\* Two weeks of seven days, one text post a day, no reference list.
ScenarioDays == 14
ScenarioPlan ==
    Plan([plan_summary |-> <<>>, weekly_themes |-> <<1, 2>>, kpis |-> <<>>],
         [i \in 1..ScenarioDays |-> << Post("text", NoRef, BriefShort, <<>>, <<>>) >>])

DaySeqs == UNION { [1..n -> DayChoices] : n \in 0..MaxDays }

\* Successful responses of POST /persona/:id/plan.
GoodResponses ==
    { PlanResponse("ok", "", Some(Plan(f, ds)), f.reference_messages) :
        f \in Frames, ds \in DaySeqs }
    \cup { PlanResponse("ok", "", Some(ScenarioPlan), Null) }

\* Responses that report a domain error (with or without text, with or
\* without plan data) and a response without a plan.
BadResponses ==
    { PlanResponse("error", "quota", Null, Null),
      PlanResponse("error", "", Some(ScenarioPlan), Some(<<11, 12>>)),
      PlanResponse("ok", "", Null, Null) }

\* ------------------------------------------------------------------ state
VARIABLES
    server,            \* which back end the page talks to: how its endpoints answer
    plan,              \* useState(null): Null or Some(plan)
    referenceMessages, \* useState(null): Null or Some(sequence of message ids)
    planLoading,       \* useState(false)
    planError,         \* useState(null): Null or Some(text shown)
    pdfLoading,        \* useState(false)
    aiPersona,         \* useState(null): Null or Some(AI persona)
    aiLoading,         \* useState(false)
    aiReq,             \* a generateAiPersona call is waiting for its response
    planReq,           \* a generatePlan call is waiting for its response
    exp,               \* the plan and reference list the running export closed over
    pc,                \* where the running export is ("idle": none is running)
    msgList,           \* exportPlanToPdf: let msgList
    feedFailed,        \* exportPlanToPdf: the catch block of the feed request ran
    overlapped,        \* exportPersonaToPdf ran while the running plan export awaited the feed
    byType,            \* exportPlanToPdf: const byType
    typeCounters,      \* exportPlanToPdf: const typeCounters
    y,                 \* the export's cursor: let y
    doc,               \* the jsPDF document: number of pages and what was drawn
    d, p, k,           \* positions of the forEach loops over days, posts and KPIs
    refMsg,            \* const refMsg (0: null)
    calls,             \* the getRefMessage calls of the running export, in order
    download,          \* the file handed to doc.save, until the export returns
    prev,              \* the previous finished export of the plan shown
    num,               \* a count a message card shows (NoViews: null)
    label,             \* Null, or Some(the count as formatNumber returned it)
    title,             \* channel.title: Null (missing) or a sequence of characters
    saved,             \* per document kind: Null or Some(the name handed to doc.save)
    wrapText,          \* a text handed to doc.splitTextToSize
    wrapWidth,         \* the width it is wrapped to
    wrapLines,         \* Null or Some(the lines splitTextToSize returned)
    routeId,           \* const { id } = useParams(): the channel the route names
    loading,           \* useState(true): the persona is being fetched
    personaAsked,      \* the channels whose GET /persona/:id is not answered yet
    personaFor,        \* Null or Some(the channel whose persona the page holds)
    planAsked,         \* Null or Some(the channel of the plan request in flight)
    planFor,           \* Null or Some(the channel the stored plan was generated for)
    exported           \* Null or Some(title, feed and plan channel of the last export)

cardVars == <<num, label>>
fileVars == <<title, saved>>
wrapVars == <<wrapText, wrapWidth, wrapLines>>
routeVars == <<routeId, loading, personaAsked, personaFor, planAsked, planFor, exported>>
asideVars == <<cardVars, fileVars, wrapVars, routeVars>>

vars == <<server, asideVars, plan, referenceMessages, planLoading, planError, pdfLoading,
          aiPersona, aiLoading, aiReq, planReq, exp,
          pc, msgList, feedFailed, overlapped, byType, typeCounters, y, doc, d, p, k,
          refMsg, calls,
          download, prev>>

planVars == <<plan, referenceMessages, planLoading, planError, planReq>>
aiVars == <<aiPersona, aiLoading, aiReq>>
pageVars == <<planVars, aiVars>>

Types == {"text", "photo", "video"}

\* ------------------------------------------------------------------ the document
NoCheck == -1

\* Something drawn.  top and h are the cursor where it was placed and the
\* amount the cursor advanced over it; from is the cursor before its page
\* check, check the height the check was given (NoCheck: none was made),
\* broke whether the check opened a page.
Blank ==
    [kind |-> "", page |-> 0, top |-> 0, h |-> 0, from |-> 0, check |-> NoCheck,
     broke |-> FALSE, d |-> 0, p |-> 0, k |-> 0, msg |-> 0, bh |-> 0,
     rectTop |-> 0, rectH |-> 0, lines |-> <<>>, total |-> 0, views |-> NothingShown]

NewDoc == [pages |-> 1, log |-> <<>>]

\* y + needed > doc.internal.pageSize.getHeight() - 15
NeedsPage(yy, needed) == yy + needed > BottomLimit

\* addPageIfNeeded(needed): the cursor and page count after it.
addPageIfNeeded(yy, pages, needed) ==
    IF NeedsPage(yy, needed)
    THEN [y |-> TopStart, pages |-> pages + 1, broke |-> TRUE]
    ELSE [y |-> yy, pages |-> pages, broke |-> FALSE]

\* A block that flows on to as many further pages as its height needs.
CheckedFlowing(kind, yy, pages, needed, h) ==
    LET a == addPageIfNeeded(yy, pages, needed)
        over == a.y + h - BottomLimit
        more == IF over > 0 THEN (over + Printable - 1) \div Printable ELSE 0
    IN [Blank EXCEPT !.kind = kind, !.page = a.pages + more, !.top = a.y, !.h = h,
                     !.from = yy, !.check = needed, !.broke = a.broke]

\* A block placed after addPageIfNeeded(needed) at cursor yy.
Checked(kind, yy, pages, needed, h) ==
    LET a == addPageIfNeeded(yy, pages, needed)
    IN [Blank EXCEPT !.kind = kind, !.page = a.pages, !.top = a.y, !.h = h,
                     !.from = yy, !.check = needed, !.broke = a.broke]

\* A block placed at cursor yy without a page check.
Unchecked(kind, yy, pages, h) ==
    [Blank EXCEPT !.kind = kind, !.page = pages, !.top = yy, !.h = h, !.from = yy]

\* jspdf-autotable with fontSize 9 and cellPadding 3: the height of a row, and
\* the default top and bottom margin of a table that continues on a new page.
TableRowH == 19
TableMargin == 28

\* autoTable({ startY, head: [[...]], body }): the head row and the body rows,
\* one below the other, a row that does not fit opening a page.
RECURSIVE TableRows(_, _, _, _)
TableRows(n, yy, pages, rows) ==
    IF n = 0 THEN [y |-> yy, pages |-> pages, rows |-> rows]
    ELSE LET brk == yy + TableRowH > PageHeight - TableMargin
             ty == IF brk THEN TableMargin ELSE yy
             pg == IF brk THEN pages + 1 ELSE pages
             row == [Blank EXCEPT !.kind = "tableRow", !.page = pg, !.top = ty,
                                  !.h = TableRowH, !.from = yy, !.broke = brk,
                                  !.k = Len(rows) + 1]
         IN TableRows(n - 1, ty + TableRowH, pg, Append(rows, row))

autoTable(startY, pages, body) == TableRows(1 + Len(body), startY, pages, <<>>)

\* ------------------------------------------------------------------ the reference matcher
\* (feedResp.data.messages || []).filter((m) => m.text_content && m.text_content.trim())
FilterFeed(feed) ==
    SelectSeq(feed, LAMBDA m : Msg(m).text_content # <<>> /\ Trim(Msg(m).text_content) # <<>>)

\* const t = m.content_type || 'text'
MessageType(m) == IF Msg(m).content_type # "" THEN Msg(m).content_type ELSE "text"

\* msgList.forEach((m) => { ...; byType[t].push(m) }); a type without a key
\* is the empty sequence.
RECURSIVE GroupByType(_, _)
GroupByType(list, acc) ==
    IF list = <<>> THEN acc
    ELSE GroupByType(Tail(list), [acc EXCEPT ![MessageType(Head(list))] = Append(@, Head(list))])

NoGroups == [t \in Types |-> <<>>]

NoCounters == [t \in Types |-> 0]

\* Counters that outlive the export: they start where the last export left.
CarriedTypeCounters ==
    [t \in Types |-> IF prev = Null THEN 0 ELSE Len(Val(prev).assign)]

\* const typeCounters = {}: a missing key counts as 0.
NewTypeCounters == NoCounters

\* referenceMessages.find((rm) => rm.ref_index === ref): the first, 0 if none.
RECURSIVE FindRef(_, _)
FindRef(list, ref) ==
    IF list = <<>> THEN 0
    ELSE IF Msg(Head(list)).ref_index = ref THEN Head(list)
    ELSE FindRef(Tail(list), ref)

\* if (post.ref && referenceMessages) { const found = ...; if (found) return found }
ExplicitRef(post, refs) ==
    IF TruthyNum(post.ref) /\ refs # Null THEN FindRef(Val(refs), post.ref) ELSE 0

\* const t = post.type || 'text'
PostType(post) == IF post.type # "" THEN post.type ELSE "text"

\* A fallback that skips the text partition.
SelectPoolNoText(t, bt, ml) == IF bt[t] # <<>> THEN bt[t] ELSE ml

\* const pool = byType[t] || byType['text'] || msgList
SelectPool(t, bt, ml) ==
    IF bt[t] # <<>> THEN bt[t] ELSE IF bt["text"] # <<>> THEN bt["text"] ELSE ml

\* A pick that stays on the last message instead of wrapping around.
PickClamped(pool, counter) == pool[Min(counter, Len(pool) - 1) + 1]

\* pool[typeCounters[t] % pool.length]
PickFrom(pool, counter) == pool[(counter % Len(pool)) + 1]

\* A counter that also counts the call that did not use it.
AdvanceTwice(counter) == counter + 2

\* typeCounters[t]++
Advance(counter) == counter + 1

\* A matcher with one counter per pool: a post that falls back to another
\* pool uses the counter of the text posts.
getRefMessagePoolKeyed(post, refs, bt, ml, tc) ==
    LET found == ExplicitRef(post, refs)
        t == PostType(post)
        key == IF bt[t] # <<>> THEN t ELSE "text"
        pool == SelectPool(t, bt, ml)
    IN IF found # 0
       THEN [msg |-> found, counters |-> tc, via |-> "explicit", type |-> t,
             pool |-> <<>>, counter |-> tc[key]]
       ELSE IF pool = <<>>
       THEN [msg |-> 0, counters |-> tc, via |-> "none", type |-> t,
             pool |-> pool, counter |-> tc[key]]
       ELSE [msg |-> PickFrom(pool, tc[key]),
             counters |-> [tc EXCEPT ![key] = Advance(@)],
             via |-> "roundrobin", type |-> t, pool |-> pool, counter |-> tc[key]]

\* getRefMessage(post): the message returned (0: null), the counters after the
\* call, and how the call was resolved.
getRefMessage(post, refs, bt, ml, tc) ==
    LET found == ExplicitRef(post, refs)
        t == PostType(post)
        pool == SelectPool(t, bt, ml)
    IN IF found # 0
       THEN [msg |-> found, counters |-> tc, via |-> "explicit", type |-> t,
             pool |-> <<>>, counter |-> tc[t]]
       ELSE IF pool = <<>>
       THEN [msg |-> 0, counters |-> tc, via |-> "none", type |-> t,
             pool |-> pool, counter |-> tc[t]]
       ELSE [msg |-> PickFrom(pool, tc[t]),
             counters |-> [tc EXCEPT ![t] = Advance(@)],
             via |-> "roundrobin", type |-> t, pool |-> pool, counter |-> tc[t]]

\* ------------------------------------------------------------------ generatePlan
\* The back end "planner" answers every plan request with one of many plans
\* and has no AI persona; the back end "small" answers a plan request with a
\* domain error, without a plan, with one of three plans or not at all, and
\* an AI persona request with a persona or not at all.
Servers == {"planner", "small"}

FewResponses ==
    { PlanResponse("ok", "", Some(Plan(FrameLong, <<DayText>>)), FrameLong.reference_messages),
      PlanResponse("ok", "", Some(Plan(FrameBare, <<DayExplicit>>)), Some(<<>>)),
      PlanResponse("ok", "", Some(Plan(FrameKpis, <<>>)), Null) }

\* A brief that fills more lines than a page holds, and a day that has it.
BriefTall == WordsOf(7, 3600)
DayTall ==
    << Post("text", NoRef, BriefTall, <<>>, CtaText),
       Post("text", NoRef, BriefShort, <<>>, <<>>) >>

\* The plans of the back ends "archive" and "legacy".
ArchiveResponses ==
    { PlanResponse("ok", "", Some(Plan(FrameBare, <<DayTall>>)), Null),
      PlanResponse("ok", "", Some(Plan(FrameShort, <<DayText, DayTall>>)),
                   FrameShort.reference_messages),
      PlanResponse("ok", "", Some(Plan(FrameLong, <<DayExplicit>>)),
                   FrameLong.reference_messages),
      PlanResponse("ok", "", Some(Plan(FrameShort, <<DayExplicit>>)),
                   FrameShort.reference_messages) }

PlanResponses(srv) ==
    CASE srv = "planner" -> GoodResponses
      [] srv = "small" -> BadResponses \cup FewResponses
      [] OTHER -> ArchiveResponses

\* The page after its first render.
PageFresh ==
    /\ plan = Null
    /\ referenceMessages = Null
    /\ planLoading = FALSE
    /\ planError = Null
    /\ pdfLoading = FALSE
    /\ aiPersona = Null
    /\ aiLoading = FALSE
    /\ aiReq = FALSE
    /\ planReq = FALSE
    /\ exp = Null
    /\ pc = "idle"
    /\ msgList = <<>>
    /\ feedFailed = FALSE
    /\ overlapped = FALSE
    /\ byType = NoGroups
    /\ typeCounters = NoCounters
    /\ y = 0
    /\ doc = NewDoc
    /\ d = 0 /\ p = 0 /\ k = 0
    /\ refMsg = 0
    /\ calls = <<>>
    /\ download = Null
    /\ prev = Null

PageStart == server \in Servers /\ PageFresh

\* No card and no file name is looked at.
CardIdle == num = NoViews /\ label = Null
FileIdle == title = Null /\ saved = [kind \in {"plan", "persona"} |-> Null]

WrapIdle == wrapText = <<>> /\ wrapWidth = 0 /\ wrapLines = Null

RouteIdle ==
    /\ routeId = 0 /\ loading = TRUE /\ personaAsked = {}
    /\ personaFor = Null /\ planAsked = Null /\ planFor = Null /\ exported = Null

Init ==
    /\ PageStart
    /\ CardIdle
    /\ FileIdle
    /\ WrapIdle
    /\ RouteIdle

exportVars == <<pdfLoading, exp, pc, msgList, feedFailed, overlapped, byType, typeCounters, y, doc, d, p, k,
                refMsg, calls, download>>

\* The button is disabled while planLoading; setPlanLoading(true); setPlanError(null);
\* the request is sent.
GeneratePlanStart ==
    /\ pc \in {"idle", "fetch"}
    /\ ~planLoading
    /\ planLoading' = TRUE
    /\ planError' = Null
    /\ planReq' = TRUE
    /\ UNCHANGED <<plan, referenceMessages, prev>>
    /\ UNCHANGED exportVars
    /\ UNCHANGED <<server, asideVars, aiVars>>

\* A handler that looks at response.data.plan before response.data.status.
GeneratePlanResponsePlanFirst ==
    /\ pc \in {"idle", "fetch"}
    /\ planReq
    /\ \E r \in PlanResponses(server) :
          IF r.plan # Null
          THEN /\ plan' = r.plan
               /\ referenceMessages' = r.reference_messages
               /\ prev' = Null
               /\ planError' = IF r.status = "error" THEN Some("Erreur de generation, reessayez.")
                                ELSE planError
          ELSE /\ planError' = Some("Reponse invalide du serveur. Reessayez.")
               /\ UNCHANGED <<plan, referenceMessages, prev>>
    /\ planReq' = FALSE
    /\ planLoading' = FALSE
    /\ UNCHANGED exportVars
    /\ UNCHANGED <<server, asideVars, aiVars>>

\* The response arrives; the three branches of the try block, then
\* setPlanLoading(false).
GeneratePlanResponse ==
    /\ pc \in {"idle", "fetch"}
    /\ planReq
    /\ \E r \in PlanResponses(server) :
          IF r.status = "error"
          THEN /\ planError' = Some(IF r.error # "" THEN r.error ELSE "Erreur de generation, reessayez.")
               /\ UNCHANGED <<plan, referenceMessages, prev>>
          ELSE IF r.plan # Null
          THEN /\ plan' = r.plan
               /\ referenceMessages' = r.reference_messages
               /\ prev' = Null
               /\ UNCHANGED planError
          ELSE /\ planError' = Some("Reponse invalide du serveur. Reessayez.")
               /\ UNCHANGED <<plan, referenceMessages, prev>>
    /\ planReq' = FALSE
    /\ planLoading' = FALSE
    /\ UNCHANGED exportVars
    /\ UNCHANGED <<server, asideVars, aiVars>>

\* The request fails (network, timeout): the catch block, then setPlanLoading(false).
GeneratePlanFail ==
    /\ pc \in {"idle", "fetch"}
    /\ planReq
    /\ server = "small"
    /\ planError' = Some("Erreur de generation. Verifiez la connexion et reessayez.")
    /\ planReq' = FALSE
    /\ planLoading' = FALSE
    /\ UNCHANGED <<plan, referenceMessages, prev>>
    /\ UNCHANGED exportVars
    /\ UNCHANGED <<server, asideVars, aiVars>>

\* {!plan ? (<div> ... {planError && (<div>{planError}</div>)} </div>) : (<div> the plan </div>)}:
\* the error text the plan section shows, Null when it shows none.
ShownPlanError == IF plan = Null THEN planError ELSE Null

\* ------------------------------------------------------------------ exportPlanToPdf
ThePlan == Val(exp).plan
\* The reference list of the page's state at the moment it is read.
TheRefsLive == referenceMessages

TheRefs == Val(exp).refs
Days == ThePlan.daily_plan
\* const posts = day.posts || []
PostsOf(i) == Days[i].posts
ThePost == PostsOf(d)[p]

Draw(items) == [doc EXCEPT !.log = @ \o items]
DrawOn(items, pages) == [pages |-> pages, log |-> doc.log \o items]

\* The button is disabled while pdfLoading; if (!plan) return; setPdfLoading(true);
\* the feed request is sent.  The handler keeps the plan and the reference list
\* of the render it was created in.
ExportPlanStart ==
    /\ pc = "idle"
    /\ ~pdfLoading
    /\ plan # Null
    /\ pdfLoading' = TRUE
    /\ exp' = Some([plan |-> Val(plan), refs |-> referenceMessages])
    /\ pc' = "fetch"
    /\ overlapped' = FALSE
    /\ UNCHANGED <<msgList, feedFailed, byType, typeCounters, y, doc, d, p, k, refMsg,
                   calls, download, prev>>
    /\ UNCHANGED <<server, asideVars, pageVars>>

\* A continuation that keeps the counters, the document and the cursor that
\* are there (module-level state) instead of creating its own.
BeginShared(list) ==
    /\ msgList' = list
    /\ byType' = GroupByType(list, NoGroups)
    /\ calls' = <<>>
    /\ d' = 0 /\ p' = 0 /\ k' = 0
    /\ refMsg' = 0
    /\ pc' = "title"
    /\ UNCHANGED <<typeCounters, doc, y>>
    /\ UNCHANGED <<pdfLoading, exp, overlapped, download, prev>>
    /\ UNCHANGED <<server, asideVars, pageVars>>

\* What follows the await: msgList, byType, typeCounters, the new document and
\* the cursor.
Begin(list) ==
    /\ msgList' = list
    /\ byType' = GroupByType(list, NoGroups)
    /\ typeCounters' = NewTypeCounters
    /\ calls' = <<>>
    /\ doc' = NewDoc
    /\ y' = TopStart
    /\ d' = 0 /\ p' = 0 /\ k' = 0
    /\ refMsg' = 0
    /\ pc' = "title"
    /\ UNCHANGED <<pdfLoading, exp, overlapped, download, prev>>
    /\ UNCHANGED <<server, asideVars, pageVars>>

\* The feed request succeeds.
FeedOk ==
    /\ pc = "fetch"
    /\ \E feed \in FeedsOf(server) : Begin(FilterFeed(feed))
    /\ feedFailed' = FALSE

\* The feed request fails: the catch block logs, msgList stays [].
FeedFail ==
    /\ pc = "fetch"
    /\ Begin(<<>>)
    /\ feedFailed' = TRUE

localVars == <<pdfLoading, exp, msgList, feedFailed, overlapped, byType, download, prev>>

\* Title, channel name, date and separator: y += 8, 4, 10, 8.
DrawTitle ==
    /\ pc = "title"
    /\ doc' = Draw(<<Unchecked("title", y, doc.pages, 60)>>)
    /\ y' = y + 60
    /\ pc' = "summary"
    /\ UNCHANGED <<typeCounters, calls, d, p, k, refMsg>>
    /\ UNCHANGED <<server, asideVars, localVars, pageVars>>

\* if (plan.plan_summary) { heading; y += 6; lines; y += summaryLines.length * 5 + 6 }
DrawSummary ==
    /\ pc = "summary"
    /\ IF ThePlan.plan_summary # <<>>
       THEN LET n == Len(splitTextToSize(ThePlan.plan_summary, contentWidth))
                h == 12 + n * 10 + 12
            IN /\ doc' = Draw(<<Unchecked("summary", y, doc.pages, h)>>)
               /\ y' = y + h
       ELSE UNCHANGED <<doc, y>>
    /\ pc' = "themes"
    /\ UNCHANGED <<typeCounters, calls, d, p, k, refMsg>>
    /\ UNCHANGED <<server, asideVars, localVars, pageVars>>

\* if (plan.weekly_themes && plan.weekly_themes.length > 0) { addPageIfNeeded(30);
\* heading; y += 2; autoTable(...); y = doc.lastAutoTable.finalY + 8 }
DrawWeeklyThemes ==
    /\ pc = "themes"
    /\ IF Len(ThePlan.weekly_themes) > 0
       THEN LET head == Checked("themesHeading", y, doc.pages, 60, 4)
                t == autoTable(head.top + 4, head.page, ThePlan.weekly_themes)
            IN /\ doc' = DrawOn(<<head>> \o t.rows, t.pages)
               /\ y' = t.y + 16
       ELSE UNCHANGED <<doc, y>>
    /\ pc' = "daily"
    /\ UNCHANGED <<typeCounters, calls, d, p, k, refMsg>>
    /\ UNCHANGED <<server, asideVars, localVars, pageVars>>

\* The daily heading drawn without looking at the number of days.
DrawDailyHeadingAlways ==
    /\ pc = "daily"
    /\ LET head == Checked("dailyHeading", y, doc.pages, 40, 16)
       IN /\ doc' = DrawOn(<<head>>, head.page)
          /\ y' = head.top + 16
          /\ d' = 1
          /\ pc' = IF Len(Days) > 0 THEN "day" ELSE "kpis"
    /\ UNCHANGED <<typeCounters, calls, p, k, refMsg>>
    /\ UNCHANGED <<server, asideVars, localVars, pageVars>>

\* if (plan.daily_plan && plan.daily_plan.length > 0) { addPageIfNeeded(20);
\* heading; y += 8; plan.daily_plan.forEach(...) }
DrawDailyHeading ==
    /\ pc = "daily"
    /\ IF Len(Days) > 0
       THEN LET head == Checked("dailyHeading", y, doc.pages, 40, 16)
            IN /\ doc' = DrawOn(<<head>>, head.page)
               /\ y' = head.top + 16
               /\ d' = 1
               /\ pc' = "day"
       ELSE /\ UNCHANGED <<doc, y, d>>
            /\ pc' = "kpis"
    /\ UNCHANGED <<typeCounters, calls, p, k, refMsg>>
    /\ UNCHANGED <<server, asideVars, localVars, pageVars>>

\* A header kept with its first post: the page check asks for the room of the
\* header and of a post below it.
DrawDayHeaderKeepWithNext ==
    /\ pc = "day"
    /\ LET head == [Checked("dayHeader", y, doc.pages, 18 + 110, 18) EXCEPT !.d = d]
       IN /\ doc' = DrawOn(<<head>>, head.page)
          /\ y' = head.top + 18
    /\ IF Len(PostsOf(d)) > 0
       THEN p' = 1 /\ pc' = "post"
       ELSE p' = 0 /\ pc' = "dayEnd"
    /\ UNCHANGED <<typeCounters, calls, d, k, refMsg>>
    /\ UNCHANGED <<server, asideVars, localVars, pageVars>>

\* addPageIfNeeded(15); the header rectangle and its texts; y += 9
DrawDayHeader ==
    /\ pc = "day"
    /\ LET head == [Checked("dayHeader", y, doc.pages, 30, 18) EXCEPT !.d = d]
       IN /\ doc' = DrawOn(<<head>>, head.page)
          /\ y' = head.top + 18
    /\ IF Len(PostsOf(d)) > 0
       THEN p' = 1 /\ pc' = "post"
       ELSE p' = 0 /\ pc' = "dayEnd"
    /\ UNCHANGED <<typeCounters, calls, d, k, refMsg>>
    /\ UNCHANGED <<server, asideVars, localVars, pageVars>>

\* post.content_brief || post.topic || ''
TopicText(post) == IF post.content_brief # <<>> THEN post.content_brief ELSE post.topic

\* The CTA line above the info paragraph.
PostItemsCtaFirst(info, cta, hasCta) == IF hasCta THEN <<cta, info>> ELSE <<info>>

\* The order in which a post's info paragraph and CTA line are drawn.
PostItems(info, cta, hasCta) == IF hasCta THEN <<info, cta>> ELSE <<info>>

\* addPageIfNeeded(55); time and type: y += 5; topic lines: y += n * 4 + 1;
\* if (post.cta) { CTA line; y += 4 }; const refMsg = getRefMessage(post)
DrawPost ==
    /\ pc = "post"
    /\ LET n == Len(splitTextToSize(TopicText(ThePost), contentWidth - 8))
           info == [Checked("postInfo", y, doc.pages, 110, 10 + n * 8 + 2)
                       EXCEPT !.d = d, !.p = p]
           y1 == info.top + info.h
           hasCta == ThePost.cta # <<>>
           cta == [Unchecked("cta", y1, info.page, 8) EXCEPT !.d = d, !.p = p]
           r == getRefMessage(ThePost, TheRefs, byType, msgList, typeCounters)
       IN /\ doc' = DrawOn(PostItems(info, cta, hasCta), info.page)
          /\ y' = IF hasCta THEN y1 + 8 ELSE y1
          /\ refMsg' = r.msg
          /\ typeCounters' = r.counters
          /\ calls' = Append(calls, [d |-> d, p |-> p, msg |-> r.msg, via |-> r.via,
                                     type |-> r.type, pool |-> r.pool,
                                     counter |-> r.counter])
    /\ pc' = "reference"
    /\ UNCHANGED <<d, p, k>>
    /\ UNCHANGED <<server, asideVars, localVars, pageVars>>

\* A label and a bubble for every post, matched or not.
AlwaysShows(m) == TRUE

\* if (refMsg) draws the bubble
ShowsBubble(m) == m # 0

\* if (refMsg) { y += 2; addPageIfNeeded(35); label; y += 4;
\*               bubbleH = drawTelegramBubble(...); y += bubbleH + 3 }  y += 3
PlaceReference ==
    /\ IF ShowsBubble(refMsg)
       THEN LET c == Checked("bubble", y + 4, doc.pages, 70, 0)
                b == drawTelegramBubble(refMsg, c.top + 8, contentWidth - 16)
                item == [c EXCEPT !.h = 8 + b.h, !.d = d, !.p = p, !.msg = refMsg,
                                  !.bh = b.h, !.rectTop = b.rectTop,
                                  !.rectH = b.rectH, !.lines = b.lines,
                                  !.views = b.views]
            IN /\ doc' = DrawOn(<<item>>, c.page)
               /\ y' = c.top + 8 + b.h + 6 + 6
       ELSE /\ doc' = doc
            /\ y' = y + 6
    /\ IF p < Len(PostsOf(d))
       THEN p' = p + 1 /\ pc' = "post"
       ELSE p' = p /\ pc' = "dayEnd"
    /\ refMsg' = 0
    /\ UNCHANGED <<typeCounters, calls, d, k>>
    /\ UNCHANGED <<server, asideVars, localVars, pageVars>>

\* An exception leaves exportPlanToPdf: nothing is saved, the handler's locals
\* are gone, and setPdfLoading(false) on its last line is not reached.
Rejected ==
    /\ exp' = Null
    /\ pc' = "idle"
    /\ msgList' = <<>>
    /\ feedFailed' = FALSE
    /\ overlapped' = FALSE
    /\ byType' = NoGroups
    /\ typeCounters' = NoCounters
    /\ y' = 0
    /\ doc' = NewDoc
    /\ d' = 0 /\ p' = 0 /\ k' = 0
    /\ refMsg' = 0
    /\ calls' = <<>>
    /\ UNCHANGED <<pdfLoading, download, prev>>
    /\ UNCHANGED <<server, asideVars, pageVars>>

\* reactions.length on the null that JSON.parse returned
BubbleThrows(m) == ShowsBubble(m) /\ m # 0 /\ ReactionsThrow(Msg(m))

DrawReference ==
    /\ pc = "reference"
    /\ IF BubbleThrows(refMsg) THEN Rejected ELSE PlaceReference

\* The end of one day's callback: y += 2
EndDay ==
    /\ pc = "dayEnd"
    /\ y' = y + 4
    /\ IF d < Len(Days)
       THEN d' = d + 1 /\ pc' = "day"
       ELSE d' = d /\ pc' = "kpis"
    /\ UNCHANGED <<doc, typeCounters, calls, p, k, refMsg>>
    /\ UNCHANGED <<server, asideVars, localVars, pageVars>>

\* The KPI heading drawn without looking at the KPI list.
DrawKpiHeadingUnguarded ==
    /\ pc = "kpis"
    /\ LET head == Checked("kpiHeading", y, doc.pages, 40, 12)
       IN /\ doc' = DrawOn(<<head>>, head.page)
          /\ y' = head.top + 12
          /\ k' = 1
          /\ pc' = IF Len(ThePlan.kpis) > 0 THEN "kpi" ELSE "footer"
    /\ UNCHANGED <<typeCounters, calls, d, p, refMsg>>
    /\ UNCHANGED <<server, asideVars, localVars, pageVars>>

\* if (plan.kpis && plan.kpis.length > 0) { addPageIfNeeded(20); heading; y += 6; ... }
DrawKpiHeading ==
    /\ pc = "kpis"
    /\ IF Len(ThePlan.kpis) > 0
       THEN LET head == Checked("kpiHeading", y, doc.pages, 40, 12)
            IN /\ doc' = DrawOn(<<head>>, head.page)
               /\ y' = head.top + 12
               /\ k' = 1
               /\ pc' = "kpi"
       ELSE /\ UNCHANGED <<doc, y, k>>
            /\ pc' = "footer"
    /\ UNCHANGED <<typeCounters, calls, d, p, refMsg>>
    /\ UNCHANGED <<server, asideVars, localVars, pageVars>>

\* plan.kpis.forEach((kpi) => { addPageIfNeeded(6); doc.text(...); y += 5 })
DrawKpi ==
    /\ pc = "kpi"
    /\ LET line == [Checked("kpi", y, doc.pages, 12, 10) EXCEPT !.k = k]
       IN /\ doc' = DrawOn(<<line>>, line.page)
          /\ y' = line.top + 10
    /\ IF k < Len(ThePlan.kpis)
       THEN k' = k + 1 /\ pc' = "kpi"
       ELSE k' = k /\ pc' = "footer"
    /\ UNCHANGED <<typeCounters, calls, d, p, refMsg>>
    /\ UNCHANGED <<server, asideVars, localVars, pageVars>>

\* A page count taken one page short.
PagesBeforeLast(dc) == dc.pages - 1

\* const totalPages = doc.internal.getNumberOfPages()
TotalPages(dc) == dc.pages

\* for (let i = 1; i <= totalPages; i++) { doc.setPage(i); doc.text(`Page ${i}/${totalPages} ...`,
\* pageWidth / 2, pageHeight - 8) }
Footers(dc) ==
    LET total == TotalPages(dc)
    IN [i \in 1..total |->
          [Blank EXCEPT !.kind = "footer", !.page = i, !.total = total,
                        !.top = PageHeight - 16, !.from = PageHeight - 16]]

StampFooters ==
    /\ pc = "footer"
    /\ doc' = Draw(Footers(doc))
    /\ pc' = "save"
    /\ UNCHANGED <<y, typeCounters, calls, d, p, k, refMsg>>
    /\ UNCHANGED <<server, asideVars, localVars, pageVars>>

\* const filename = ...; doc.save(filename)
SavePlan ==
    /\ pc = "save"
    /\ download' = Some("plan")
    /\ pc' = "saved"
    /\ UNCHANGED <<pdfLoading, exp, msgList, feedFailed, overlapped, byType, typeCounters, y, doc,
                   d, p, k,
                   refMsg, calls, prev>>
    /\ UNCHANGED <<server, asideVars, pageVars>>

\* An export that cleans up behind itself: it also clears the stored error.
FinishPlanClearsError ==
    /\ pc = "saved"
    /\ pdfLoading' = FALSE
    /\ prev' = Some([plan |-> ThePlan, refs |-> TheRefs, msgList |-> msgList,
                     assign |-> [i \in 1..Len(calls) |-> calls[i].msg],
                     log |-> doc.log, overlapped |-> overlapped])
    /\ exp' = Null
    /\ pc' = "idle"
    /\ msgList' = <<>>
    /\ feedFailed' = FALSE
    /\ overlapped' = FALSE
    /\ byType' = NoGroups
    /\ typeCounters' = NoCounters
    /\ y' = 0
    /\ doc' = NewDoc
    /\ d' = 0 /\ p' = 0 /\ k' = 0
    /\ refMsg' = 0
    /\ calls' = <<>>
    /\ download' = Null
    /\ planError' = Null
    /\ UNCHANGED <<server, asideVars, aiVars, plan, referenceMessages, planLoading, planReq>>

\* setPdfLoading(false); the handler returns and its locals are gone.
FinishPlan ==
    /\ pc = "saved"
    /\ pdfLoading' = FALSE
    /\ prev' = Some([plan |-> ThePlan, refs |-> TheRefs, msgList |-> msgList,
                     assign |-> [i \in 1..Len(calls) |-> calls[i].msg],
                     log |-> doc.log, overlapped |-> overlapped])
    /\ exp' = Null
    /\ pc' = "idle"
    /\ msgList' = <<>>
    /\ feedFailed' = FALSE
    /\ overlapped' = FALSE
    /\ byType' = NoGroups
    /\ typeCounters' = NoCounters
    /\ y' = 0
    /\ doc' = NewDoc
    /\ d' = 0 /\ p' = 0 /\ k' = 0
    /\ refMsg' = 0
    /\ calls' = <<>>
    /\ download' = Null
    /\ UNCHANGED <<server, asideVars, pageVars>>

\* ------------------------------------------------------------------ generateAiPersona
\* An AI persona; an empty text or list and a Null object are missing
\* properties.
Style(tone, habits, language, emoji, phrases) ==
    [tone_description |-> tone, formatting_habits |-> habits, language |-> language,
     emoji_style |-> emoji, signature_phrases |-> phrases]
Template(description, structure, example) ==
    [description |-> description, structure |-> structure, example_summary |-> example]
Strategy(topics, sequences, weekly, ratio) ==
    [main_topics |-> topics, posting_sequences |-> sequences,
     weekly_pattern_analysis |-> weekly, promotional_vs_value_ratio |-> ratio]
Persona(summary, style, templates, strategy, strengths, weaknesses, recommendations) ==
    [persona_summary |-> summary, writing_style |-> style, content_templates |-> templates,
     content_strategy |-> strategy, strengths |-> strengths, weaknesses |-> weaknesses,
     recommendations |-> recommendations]

Copies(n, text) == [i \in 1..n |-> text]

PersonaEmpty == Persona(<<>>, Null, <<>>, Null, <<>>, <<>>, <<>>)
PersonaBrief ==
    Persona(SummaryShort, Some(Style(<<>>, <<>>, <<>>, <<>>, <<>>)), <<>>,
            Some(Strategy(<<>>, <<>>, <<>>, <<>>)), <<>>, Copies(2, KpiText), <<>>)
PersonaFull ==
    Persona(SummaryLong,
            Some(Style(ShortText, ShortText, ShortText, ShortText, Copies(3, MediumText))),
            << Template(MediumText, BriefLong, ShortText),
               Template(<<>>, <<>>, <<>>),
               Template(LongText, BriefLong, MediumText),
               Template(<<>>, LongText, <<>>) >>,
            Some(Strategy(Copies(4, ShortText), Copies(3, MediumText), LongText, MediumText)),
            Copies(5, ShortText), Copies(3, ShortText), Copies(6, LongText))
PersonaTables ==
    Persona(<<>>, Some(Style(ShortText, <<>>, ShortText, <<>>, <<>>)), <<>>, Null,
            Copies(30, ShortText), <<>>, Copies(1, ShortText))

\* Responses of POST /persona/:id/generate: the persona under ai_persona, or
\* the persona as the response itself.
AiResponses ==
    { [ai_persona |-> Some(a), data |-> PersonaEmpty] :
        a \in {PersonaEmpty, PersonaBrief, PersonaFull} }
    \cup { [ai_persona |-> Null, data |-> PersonaTables] }

\* The button is disabled while aiLoading; setAiLoading(true); the request is sent.
GenerateAiPersonaStart ==
    /\ pc \in {"idle", "fetch"}
    /\ ~aiLoading
    /\ aiLoading' = TRUE
    /\ aiReq' = TRUE
    /\ UNCHANGED <<server, asideVars, planVars, aiPersona, prev>>
    /\ UNCHANGED exportVars

\* setAiPersona(response.data.ai_persona || response.data); setAiLoading(false)
GenerateAiPersonaResponse ==
    /\ pc \in {"idle", "fetch"}
    /\ aiReq
    /\ \E r \in AiResponses :
          aiPersona' = Some(IF r.ai_persona # Null THEN Val(r.ai_persona) ELSE r.data)
    /\ aiReq' = FALSE
    /\ aiLoading' = FALSE
    /\ UNCHANGED <<server, asideVars, planVars, prev>>
    /\ UNCHANGED exportVars

\* The request fails: the catch block logs; setAiLoading(false)
GenerateAiPersonaFail ==
    /\ pc \in {"idle", "fetch"}
    /\ aiReq
    /\ aiReq' = FALSE
    /\ aiLoading' = FALSE
    /\ UNCHANGED <<server, asideVars, planVars, aiPersona, prev>>
    /\ UNCHANGED exportVars

\* ------------------------------------------------------------------ exportPersonaToPdf
\* The cursor, the page count and what was drawn, threaded through the
\* drawing of one section.
Here == [y |-> y, pages |-> doc.pages, log |-> doc.log]

Place(c, kind, needed, h) ==
    LET b == Checked(kind, c.y, c.pages, needed, h)
    IN [y |-> b.top + h, pages |-> b.page, log |-> Append(c.log, b)]
PlaceU(c, kind, h) ==
    [y |-> c.y + h, pages |-> c.pages, log |-> Append(c.log, Unchecked(kind, c.y, c.pages, h))]
Skip(c, dy) == [c EXCEPT !.y = @ + dy]
Table(c, body, gap) ==
    LET t == autoTable(c.y, c.pages, body)
    IN [y |-> t.y + gap, pages |-> t.pages, log |-> c.log \o t.rows]

LinesOf(text, width) == Len(splitTextToSize(text, width))

\* const sectionTitle = (text) => { addPageIfNeeded(15); doc.text(...); y += 7 }
sectionTitle(c) == Place(c, "sectionTitle", 30, 14)

\* list.forEach((t) => { addPageIfNeeded(needed); lines of pre + t + post at
\* width contentWidth - 5; y += lines.length * lineH + gap })
RECURSIVE PlaceEach(_, _, _, _, _, _, _)
PlaceEach(c, list, needed, lineH, gap, pre, post) ==
    IF list = <<>> THEN c
    ELSE PlaceEach(Place(c, "listItem", needed,
                         LinesOf(pre \o Head(list) \o post, contentWidth - 10) * lineH + gap),
                   Tail(list), needed, lineH, gap, pre, post)

\* One content template: name, description, structure box, example.
PlaceTemplate(c, tpl) ==
    LET c1 == Place(c, "templateName", 50, 10)
        c2 == IF tpl.description # <<>>
              THEN PlaceU(c1, "templateDescription",
                          LinesOf(tpl.description, contentWidth - 10) * 9 + 4)
              ELSE c1
        blockH == LinesOf(tpl.structure, contentWidth - 20) * 8 + 8
        c3 == IF tpl.structure # <<>>
              THEN Place(c2, "templateStructure", blockH + 4, blockH + 4)
              ELSE c2
        c4 == IF tpl.example_summary # <<>>
              THEN PlaceU(c3, "templateExample",
                          LinesOf(<<10, 0>> \o tpl.example_summary, contentWidth - 10) * 8 + 8)
              ELSE c3
    IN Skip(c4, 4)

RECURSIVE PlaceTemplates(_, _)
PlaceTemplates(c, tpls) ==
    IF tpls = <<>> THEN c ELSE PlaceTemplates(PlaceTemplate(c, Head(tpls)), Tail(tpls))

\* cs.main_topics.join('  (bullet)  ')
RECURSIVE JoinTopics(_)
JoinTopics(list) ==
    IF list = <<>> THEN <<>>
    ELSE IF Len(list) = 1 THEN Head(list)
    ELSE Head(list) \o <<0, 0, 4, 0, 0>> \o JoinTopics(Tail(list))

ThePersona == Val(aiPersona)

personaFrame == <<server, asideVars, planVars, aiVars, pdfLoading, exp, msgList, feedFailed, byType,
                  typeCounters, d, p, k, refMsg, calls, prev>>

Continue(c, next) ==
    /\ doc' = [pages |-> c.pages, log |-> c.log]
    /\ y' = c.y
    /\ pc' = next

\* if (!aiPersona) return; the new document, the cursor, title, channel name,
\* date and separator: y += 8, 4, 10, 8.
ExportPersonaStart ==
    /\ pc \in {"idle", "fetch"}
    /\ aiPersona # Null
    /\ Continue(PlaceU([y |-> TopStart, pages |-> 1, log |-> <<>>], "title", 60), "pSummary")
    /\ overlapped' = (pc = "fetch")
    /\ UNCHANGED download
    /\ UNCHANGED personaFrame

\* if (aiPersona.persona_summary) { sectionTitle; lines; y += lines.length * 5 + 6 }
PersonaSummary ==
    /\ pc = "pSummary"
    /\ Continue(IF ThePersona.persona_summary # <<>>
                THEN PlaceU(sectionTitle(Here), "paragraph",
                            LinesOf(ThePersona.persona_summary, contentWidth) * 10 + 12)
                ELSE Here,
                "pStyle")
    /\ UNCHANGED download
    /\ UNCHANGED <<personaFrame, overlapped>>

\* The rows of the writing-style table: the properties that are present.
StyleRows(ws) ==
    SelectSeq(<<ws.tone_description, ws.formatting_habits, ws.language, ws.emoji_style>>,
              LAMBDA t : t # <<>>)

\* if (aiPersona.writing_style) { sectionTitle; the table; the signature phrases }
PersonaWritingStyle ==
    /\ pc = "pStyle"
    /\ Continue(IF ThePersona.writing_style # Null
                THEN LET ws == Val(ThePersona.writing_style)
                         c1 == sectionTitle(Here)
                         c2 == IF Len(StyleRows(ws)) > 0 THEN Table(c1, StyleRows(ws), 8) ELSE c1
                     IN IF Len(ws.signature_phrases) > 0
                        THEN Skip(PlaceEach(Place(c2, "label", 20, 10), ws.signature_phrases,
                                            12, 9, 4, <<2>>, <<2>>), 6)
                        ELSE c2
                ELSE Here,
                "pTemplates")
    /\ UNCHANGED download
    /\ UNCHANGED <<personaFrame, overlapped>>

\* if (aiPersona.content_templates && ...length > 0) { sectionTitle; each template }
PersonaTemplates ==
    /\ pc = "pTemplates"
    /\ Continue(IF Len(ThePersona.content_templates) > 0
                THEN PlaceTemplates(sectionTitle(Here), ThePersona.content_templates)
                ELSE Here,
                "pStrategy")
    /\ UNCHANGED download
    /\ UNCHANGED <<personaFrame, overlapped>>

\* if (aiPersona.content_strategy) { sectionTitle; main topics; posting
\* sequences; weekly pattern; promo vs value ratio }
PersonaStrategy ==
    /\ pc = "pStrategy"
    /\ Continue(IF ThePersona.content_strategy # Null
                THEN LET cs == Val(ThePersona.content_strategy)
                         c1 == sectionTitle(Here)
                         c2 == IF Len(cs.main_topics) > 0
                               THEN PlaceU(PlaceU(c1, "label", 10), "paragraph",
                                           LinesOf(JoinTopics(cs.main_topics), contentWidth - 10) * 9 + 8)
                               ELSE c1
                         c3 == IF Len(cs.posting_sequences) > 0
                               THEN Skip(PlaceEach(Place(c2, "label", 20, 10), cs.posting_sequences,
                                                   12, 9, 4, <<4, 0>>, <<>>), 6)
                               ELSE c2
                         c4 == IF cs.weekly_pattern_analysis # <<>>
                               THEN PlaceU(Place(c3, "label", 20, 10), "paragraph",
                                           LinesOf(cs.weekly_pattern_analysis, contentWidth - 10) * 9 + 8)
                               ELSE c3
                     IN IF cs.promotional_vs_value_ratio # <<>>
                        THEN PlaceU(Place(c4, "label", 20, 10), "paragraph",
                                    LinesOf(cs.promotional_vs_value_ratio, contentWidth - 10) * 9 + 8)
                        ELSE c4
                ELSE Here,
                "pStrengths")
    /\ UNCHANGED download
    /\ UNCHANGED <<personaFrame, overlapped>>

\* if (strengths or weaknesses non-empty) { sectionTitle; a table of
\* Math.max(strengths.length, weaknesses.length) rows; y = finalY + 6 }
PersonaStrengths ==
    /\ pc = "pStrengths"
    /\ Continue(IF Len(ThePersona.strengths) > 0 \/ Len(ThePersona.weaknesses) > 0
                THEN Table(sectionTitle(Here),
                           Copies(Max(Len(ThePersona.strengths), Len(ThePersona.weaknesses)), <<>>),
                           12)
                ELSE Here,
                "pRecommendations")
    /\ UNCHANGED download
    /\ UNCHANGED <<personaFrame, overlapped>>

\* if (recommendations non-empty) { sectionTitle; each: addPageIfNeeded(10);
\* lines; y += lines.length * 5 + 3 }
PersonaRecommendations ==
    /\ pc = "pRecommendations"
    /\ Continue(IF Len(ThePersona.recommendations) > 0
                THEN PlaceEach(sectionTitle(Here), ThePersona.recommendations,
                               20, 10, 6, <<6, 0>>, <<>>)
                ELSE Here,
                "pFooter")
    /\ UNCHANGED download
    /\ UNCHANGED <<personaFrame, overlapped>>

\* The footer loop of exportPersonaToPdf.
PersonaFooters ==
    /\ pc = "pFooter"
    /\ doc' = Draw(Footers(doc))
    /\ pc' = "pSave"
    /\ UNCHANGED <<y, download>>
    /\ UNCHANGED <<personaFrame, overlapped>>

\* const filename = ...; doc.save(filename)
SavePersona ==
    /\ pc = "pSave"
    /\ download' = Some("persona")
    /\ pc' = "pSaved"
    /\ UNCHANGED <<y, doc>>
    /\ UNCHANGED <<personaFrame, overlapped>>

\* The handler returns and its locals are gone; a plan export that waits for
\* the feed still waits.
FinishPersona ==
    /\ pc = "pSaved"
    /\ pc' = IF exp # Null THEN "fetch" ELSE "idle"
    /\ y' = 0
    /\ doc' = NewDoc
    /\ download' = Null
    /\ UNCHANGED <<personaFrame, overlapped>>

\* ------------------------------------------------------------------ formatNumber
MaxCount == 20

\* The counts formatted: small ones and the ones around the two thresholds.
Counts == (0..MaxCount) \cup (990..1010) \cup (999990..1000010)

\* A formatNumber without the millions branch.
formatNumberThousandsOnly(n) ==
    IF n = NoViews THEN Shown(0, Null, "null")
    ELSE IF n >= 1000 THEN toFixed1(n, 1000, "K")
    ELSE Shown(n, Null, "")

\* function formatNumber(n) of the message bubble component: String(null) is
\* "null".
formatNumber(n) ==
    IF n = NoViews THEN Shown(0, Null, "null")
    ELSE IF n >= 1000000 THEN toFixed1(n, 1000000, "M")
    ELSE IF n >= 1000 THEN toFixed1(n, 1000, "K")
    ELSE Shown(n, Null, "")

\* function formatNumber(num) of the swipe file: if (num == null) return '0'
SwipeFile_formatNumber(n) ==
    IF n = NoViews THEN Shown(0, Null, "")
    ELSE IF n >= 1000000 THEN toFixed1(n, 1000000, "M")
    ELSE IF n >= 1000 THEN toFixed1(n, 1000, "K")
    ELSE Shown(n, Null, "")

\* A card is about to show a count.
CardStart ==
    /\ PageStart
    /\ FileIdle
    /\ WrapIdle
    /\ RouteIdle
    /\ num \in Counts \cup {NoViews}
    /\ label = Null

mainFrame == <<server, plan, referenceMessages, planLoading, planError, pdfLoading,
               aiPersona, aiLoading, aiReq, planReq, exp,
               pc, msgList, feedFailed, overlapped, byType, typeCounters, y, doc, d, p, k,
          refMsg, calls,
               download, prev>>
cardFrame == <<fileVars, wrapVars, routeVars, mainFrame>>

\* MessageBubble: {formatNumber(message.views_count)}
ShowBubbleCount ==
    /\ label = Null
    /\ label' = Some(formatNumber(num))
    /\ UNCHANGED num
    /\ UNCHANGED cardFrame

\* SwipeFile card: {formatNumber(item.views_count)}
ShowSwipeCount ==
    /\ label = Null
    /\ label' = Some(SwipeFile_formatNumber(num))
    /\ UNCHANGED num
    /\ UNCHANGED cardFrame

\* The card is rendered again.
RenderAgain ==
    /\ label # Null
    /\ label' = Null
    /\ UNCHANGED num
    /\ UNCHANGED cardFrame

CardNext == ShowBubbleCount \/ ShowSwipeCount \/ RenderAgain

CardSpec == CardStart /\ [][CardNext]_vars

\* ------------------------------------------------------------------ file names
MaxTitle == 3

\* The characters of a title: three letters or digits of the class
\* [a-zA-Z0-9], a space, an underscore, an accented letter, and an emoji
\* outside the Basic Multilingual Plane.
TitleChars == {"a", "Z", "7", " ", "_", "e-acute", "emoji"}
Titles == UNION { [1..n -> TitleChars] : n \in 0..MaxTitle }

\* A JavaScript string is a sequence of UTF-16 code units: a character
\* outside the Basic Multilingual Plane is a pair of surrogates.
RECURSIVE CodeUnits(_)
CodeUnits(t) ==
    IF t = <<>> THEN <<>>
    ELSE (IF Head(t) = "emoji" THEN <<"hi-surrogate", "lo-surrogate">> ELSE <<Head(t)>>)
         \o CodeUnits(Tail(t))

\* [a-zA-Z0-9]: the units of that class among the ones used here.
Alphanumeric == {"a", "Z", "7", "c", "h", "n", "e", "l"}

\* (channel.title || 'channel')
TitleOrDefault(t) ==
    IF t = Null \/ Val(t) = <<>> THEN <<"c", "h", "a", "n", "n", "e", "l">>
    ELSE CodeUnits(Val(t))

\* A replace without the g flag: only the first match is replaced.
ReplaceFirst(units) ==
    [i \in 1..Len(units) |->
        IF units[i] \notin Alphanumeric /\ \A j \in 1..(i - 1) : units[j] \in Alphanumeric
        THEN "_" ELSE units[i]]

\* .replace(/[^a-zA-Z0-9]/g, '_'): without the u flag the pattern matches
\* one code unit at a time.
ReplaceAll(units) ==
    [i \in 1..Len(units) |-> IF units[i] \in Alphanumeric THEN units[i] ELSE "_"]

\* `plan-30j-${...}.pdf` and `persona-${...}.pdf`
FileName(kind, t) ==
    [prefix |-> IF kind = "plan" THEN "plan-30j-" ELSE "persona-",
     stem |-> ReplaceAll(TitleOrDefault(t)),
     ext |-> ".pdf"]

fileFrame == <<cardVars, wrapVars, routeVars, mainFrame>>

\* The page shows a channel: const { channel } = persona.
FileStart ==
    /\ PageStart
    /\ CardIdle
    /\ WrapIdle
    /\ RouteIdle
    /\ title \in {Null} \cup {Some(t) : t \in Titles}
    /\ saved = [kind \in {"plan", "persona"} |-> Null]

\* exportPlanToPdf: doc.save(filename)
SavePlanFile ==
    /\ saved' = [saved EXCEPT !["plan"] = Some(FileName("plan", title))]
    /\ UNCHANGED title
    /\ UNCHANGED fileFrame

\* exportPersonaToPdf: doc.save(filename)
SavePersonaFile ==
    /\ saved' = [saved EXCEPT !["persona"] = Some(FileName("persona", title))]
    /\ UNCHANGED title
    /\ UNCHANGED fileFrame

\* The browser has stored the files; the page is as before the exports.
FilesStored ==
    /\ \E kind \in {"plan", "persona"} : saved[kind] # Null
    /\ saved' = [kind \in {"plan", "persona"} |-> Null]
    /\ UNCHANGED title
    /\ UNCHANGED fileFrame

FileNext == SavePlanFile \/ SavePersonaFile \/ FilesStored

FileSpec == FileStart /\ [][FileNext]_vars

\* ------------------------------------------------------------------ wrapped texts
MaxTokens == 4

\* Texts of up to MaxTokens tokens: a space, a short glyph run and a glyph
\* run wider than the narrow width.
WrapTokens == {0, 3, 7}
WrapTexts == UNION { [1..n -> WrapTokens] : n \in 0..MaxTokens }
\* A width narrower than the long glyph run and one that holds two of them.
WrapWidths == {5, 16}

wrapFrame == <<cardVars, fileVars, routeVars, mainFrame>>

\* A text is about to be wrapped.
WrapStart ==
    /\ PageStart
    /\ CardIdle
    /\ FileIdle
    /\ RouteIdle
    /\ wrapText \in WrapTexts
    /\ wrapWidth \in WrapWidths
    /\ wrapLines = Null

\* const topicLines = doc.splitTextToSize(post.content_brief || post.topic || '', contentWidth - 4)
\* textLines = doc.splitTextToSize(cleanText, inner)
WrapText ==
    /\ wrapLines = Null
    /\ wrapLines' = Some(splitTextToSize(wrapText, wrapWidth))
    /\ UNCHANGED <<wrapText, wrapWidth>>
    /\ UNCHANGED wrapFrame

\* The same text is wrapped to the other width.
WrapToOtherWidth ==
    /\ wrapLines # Null
    /\ wrapWidth' \in WrapWidths \ {wrapWidth}
    /\ wrapLines' = Null
    /\ UNCHANGED wrapText
    /\ UNCHANGED wrapFrame

WrapNext == WrapText \/ WrapToOtherWidth

WrapSpec == WrapStart /\ [][WrapNext]_vars

\* ------------------------------------------------------------------ specification
\* One operation of the plan section at a time: a plan is not regenerated
\* while an export waits for the feed, and no export starts while a plan is
\* awaited.  An AI persona is requested only from the back end that has one,
\* and a stored plan is regenerated only on the back end "small".
Next ==
    \/ (pc = "idle" /\ (server = "small" \/ plan = Null) /\ GeneratePlanStart)
    \/ GeneratePlanResponse
    \/ GeneratePlanFail
    \/ (~planReq /\ ExportPlanStart)
    \/ FeedOk
    \/ FeedFail
    \/ DrawTitle
    \/ DrawSummary
    \/ DrawWeeklyThemes
    \/ DrawDailyHeading
    \/ DrawDayHeader
    \/ DrawPost
    \/ DrawReference
    \/ EndDay
    \/ DrawKpiHeading
    \/ DrawKpi
    \/ StampFooters
    \/ SavePlan
    \/ FinishPlan
    \/ (server = "small" /\ GenerateAiPersonaStart)
    \/ GenerateAiPersonaResponse
    \/ GenerateAiPersonaFail
    \/ ExportPersonaStart
    \/ PersonaSummary
    \/ PersonaWritingStyle
    \/ PersonaTemplates
    \/ PersonaStrategy
    \/ PersonaStrengths
    \/ PersonaRecommendations
    \/ PersonaFooters
    \/ SavePersona
    \/ FinishPersona

Spec == Init /\ [][Next]_vars

\* ------------------------------------------------------------------ the route
\* The channels the route may name.
Channels == {1, 2}

routeFrame == <<cardVars, fileVars, wrapVars, mainFrame>>

\* The page is mounted for a channel: the effect calls fetchPersona.
RouteStart ==
    /\ PageStart
    /\ CardIdle
    /\ FileIdle
    /\ WrapIdle
    /\ routeId \in Channels
    /\ loading = TRUE
    /\ personaAsked = {routeId}
    /\ personaFor = Null
    /\ planAsked = Null
    /\ planFor = Null
    /\ exported = Null

\* if (loading || !persona) the page shows a spinner and no button.
Rendered == ~loading /\ personaFor # Null

\* useParams returns another id in a later render: fetchPersona is a new
\* callback, the effect runs it: setLoading(true) and the request.  The other
\* state hooks keep their values.
RouteChange ==
    /\ \E c \in Channels \ {routeId} :
          /\ routeId' = c
          /\ personaAsked' = personaAsked \cup {c}
    /\ loading' = TRUE
    /\ UNCHANGED <<personaFor, planAsked, planFor, exported>>
    /\ UNCHANGED routeFrame

\* A persona request is answered: setPersona(response.data); setLoading(false)
PersonaResponse ==
    /\ \E c \in personaAsked :
          /\ personaFor' = Some(c)
          /\ personaAsked' = personaAsked \ {c}
    /\ loading' = FALSE
    /\ UNCHANGED <<routeId, planAsked, planFor, exported>>
    /\ UNCHANGED routeFrame

\* generatePlan: api.post(`/persona/${id}/plan`) with the id of the render.
RoutePlanStart ==
    /\ Rendered
    /\ planAsked = Null
    /\ planAsked' = Some(routeId)
    /\ UNCHANGED <<routeId, loading, personaAsked, personaFor, planFor, exported>>
    /\ UNCHANGED routeFrame

\* The plan request is answered with a plan or without one; with one:
\* setPlan(response.data.plan), whatever the route names by now.
RoutePlanResponse ==
    /\ planAsked # Null
    /\ \E ok \in BOOLEAN : planFor' = IF ok THEN planAsked ELSE planFor
    /\ planAsked' = Null
    /\ UNCHANGED <<routeId, loading, personaAsked, personaFor, exported>>
    /\ UNCHANGED routeFrame

\* exportPlanToPdf of the render shown: the plan of the state, the feed of
\* `/messages/feed/${id}`, the file name from channel.title of the persona.
RouteExport ==
    /\ Rendered
    /\ planFor # Null
    /\ exported' = Some([title |-> Val(personaFor), feed |-> routeId, plan |-> Val(planFor)])
    /\ UNCHANGED <<routeId, loading, personaAsked, personaFor, planAsked, planFor>>
    /\ UNCHANGED routeFrame

RouteNext ==
    \/ RouteChange
    \/ PersonaResponse
    \/ RoutePlanStart
    \/ RoutePlanResponse
    \/ RouteExport

RouteSpec == RouteStart /\ [][RouteNext]_vars

\* ------------------------------------------------------------------ fair exports
\* The page against the back ends "archive" and "legacy": a plan is requested
\* once and exported any number of times.  After the await everything in
\* exportPlanToPdf is synchronous code, which runs to its end or to an
\* exception; nothing is assumed about when a request is answered.
ExportRun ==
    \/ DrawTitle
    \/ DrawSummary
    \/ DrawWeeklyThemes
    \/ DrawDailyHeading
    \/ DrawDayHeader
    \/ DrawPost
    \/ DrawReference
    \/ EndDay
    \/ DrawKpiHeading
    \/ DrawKpi
    \/ StampFooters
    \/ SavePlan
    \/ FinishPlan

ArchiveNext ==
    \/ (plan = Null /\ GeneratePlanStart)
    \/ GeneratePlanResponse
    \/ ExportPlanStart
    \/ FeedOk
    \/ FeedFail
    \/ ExportRun

ArchiveStart == server = "archive" /\ PageFresh /\ CardIdle /\ FileIdle /\ WrapIdle /\ RouteIdle
ArchiveSpec == ArchiveStart /\ [][ArchiveNext]_vars /\ WF_vars(ExportRun)

\* The same page with the Regenerate button in use: a plan request may be sent
\* and answered at any time, also while an export waits for the feed.
RegenNext ==
    \/ GeneratePlanStart
    \/ GeneratePlanResponse
    \/ ExportPlanStart
    \/ FeedOk
    \/ FeedFail
    \/ ExportRun

RegenSpec == ArchiveStart /\ [][RegenNext]_vars

LegacyStart == server = "legacy" /\ PageFresh /\ CardIdle /\ FileIdle /\ WrapIdle /\ RouteIdle
LegacySpec == LegacyStart /\ [][ArchiveNext]_vars /\ WF_vars(ExportRun)

\* ------------------------------------------------------------------ properties
Log == doc.log
Drawn(kind) == {i \in 1..Len(Log) : Log[i].kind = kind}
Finished == pc \in {"save", "saved", "pSave", "pSaved"}

\* The blocks the pagination places one by one.
BlockKinds == {"dayHeader", "postInfo", "cta", "bubble", "kpi"}

\* C1: every placed block (day header, post-info paragraph, CTA line,
\* reference bubble with its label, KPI line) that is no taller than the
\* printable area lies between the top start and the bottom limit of its page.
C1_BlocksInsidePage ==
    \A i \in 1..Len(Log) :
        (Log[i].kind \in BlockKinds /\ Log[i].h <= Printable)
            => (Log[i].top >= TopStart /\ Log[i].top + Log[i].h <= BottomLimit)

\* C2: the height drawTelegramBubble measures and returns is the height of the
\* rectangle it draws, and every line it draws has its baseline between the
\* top of the bubble and the top plus that height.
C2_BubbleHeightIsDrawn ==
    \A i \in Drawn("bubble") :
        /\ Log[i].rectH = Log[i].bh
        /\ Log[i].h = 8 + Log[i].bh
        /\ \A j \in 1..Len(Log[i].lines) :
              /\ Log[i].lines[j].base >= Log[i].rectTop
              /\ Log[i].lines[j].base <= Log[i].rectTop + Log[i].bh

LineKinds(b) == {b.lines[j].kind : j \in 1..Len(b.lines)}

\* A bubble with every optional line: type label, forwarded-from, more than
\* eight text lines and reactions.
C2_Witness ==
    \E i \in Drawn("bubble") :
        {"type", "forward", "ellipsis", "reactions", "footer"} \subseteq LineKinds(Log[i])

Assign == [i \in 1..Len(calls) |-> calls[i].msg]

SameInputs ==
    /\ prev # Null
    /\ Val(prev).plan = ThePlan
    /\ Val(prev).refs = TheRefs
    /\ Val(prev).msgList = msgList

\* C3: two exports of the same plan, reference list and fetched message list
\* assign the same messages to the posts, in the same order.
C3_SameAssignments ==
    (pc = "saved" /\ SameInputs) => Val(prev).assign = Assign

C3_Witness ==
    /\ pc = "saved"
    /\ SameInputs
    /\ \E i, j \in 1..Len(calls) :
          i # j /\ calls[i].via = "roundrobin" /\ calls[j].via = "explicit"

\* The messages of msgList whose content type (text when missing) is t.
Partition(t) == SelectSeq(msgList, LAMBDA m : MessageType(m) = t)

\* The calls for posts of content type t (text when missing), in plan order.
CallsOfType(t) == SelectSeq(calls, LAMBDA c : c.type = t)
RoundRobinOfType(t) == SelectSeq(calls, LAMBDA c : c.type = t /\ c.via = "roundrobin")

Wraps(cs, n) == \A i \in 1..Len(cs) : i + n <= Len(cs) => cs[i].msg = cs[i + n].msg

\* C4 as stated: with a partition of N messages for a type, the i-th and the
\* (i+N)-th post of that type get the same message.
C4_Original ==
    \A t \in Types : Partition(t) # <<>> => Wraps(CallsOfType(t), Len(Partition(t)))

\* C4 as amended: with a partition of N messages for a type, the i-th and the
\* (i+N)-th of the posts of that type that are not resolved by an explicit
\* reference get the same message; in the two-week scenario with three text
\* messages every post gets a bubble and every third post the message of the
\* first.
C4_WrapAround ==
    /\ \A t \in Types :
          Partition(t) # <<>> => Wraps(RoundRobinOfType(t), Len(Partition(t)))
    /\ (pc = "saved" /\ ThePlan = ScenarioPlan /\ Len(Partition("text")) = 3)
          => /\ Len(calls) = ScenarioDays
             /\ \A i \in 1..Len(calls) :
                   /\ calls[i].msg # 0
                   /\ \E j \in Drawn("bubble") : Log[j].d = i /\ Log[j].msg = calls[i].msg
                   /\ (i - 1) % 3 = 0 => calls[i].msg = calls[1].msg

C4_Witness ==
    /\ pc = "saved"
    /\ ThePlan = ScenarioPlan
    /\ Len(Partition("text")) = 3
    /\ Len(RoundRobinOfType("text")) > 3

PostOfCall(c) == PostsOf(c.d)[c.p]

\* The entries of the export's reference list whose ref_index is ref.
EntriesWithIndex(ref) ==
    IF TheRefs = Null THEN {}
    ELSE {m \in Range(Val(TheRefs)) : Msg(m).ref_index = ref}

\* C5: a post with an explicit reference index that occurs as ref_index in the
\* reference list gets the entry with that index.
C5_ExplicitReference ==
    \A i \in 1..Len(calls) :
        LET ref == PostOfCall(calls[i]).ref
        IN (ref # NoRef /\ EntriesWithIndex(ref) # {})
              => calls[i].msg \in EntriesWithIndex(ref)

\* The pool the claim names for a post of type t.
ClaimedPool(t) ==
    IF Partition(t) # <<>> THEN Partition(t)
    ELSE IF Partition("text") # <<>> THEN Partition("text")
    ELSE msgList

\* C6: a post without a resolving explicit reference draws from the partition
\* of its type if that has messages, else from the text partition if that has
\* messages, else from the whole message list.
C6_PoolFallback ==
    \A i \in 1..Len(calls) :
        calls[i].via # "explicit"
            => /\ calls[i].pool = ClaimedPool(PostType(PostOfCall(calls[i])))
               /\ calls[i].via = "roundrobin" => calls[i].msg \in Range(calls[i].pool)

\* All three cases in one export: a post served by its own partition, one by
\* the text partition, and (in another list) one by the whole list.
C6_Witness ==
    /\ \E i \in 1..Len(calls) :
          /\ calls[i].via = "roundrobin"
          /\ Partition(calls[i].type) = <<>>
          /\ Partition("text") = <<>>
          /\ calls[i].pool = msgList
    /\ \E i \in 1..Len(calls) :
          calls[i].via = "roundrobin" /\ Partition(calls[i].type) # <<>>

HasBlock(kind, dd, pp) == \E j \in Drawn(kind) : Log[j].d = dd /\ Log[j].p = pp

\* C7: getRefMessage returns no match exactly when no explicit reference
\* resolves and the selected pool is empty; such a post is drawn with its info
\* paragraph and its CTA line (if it has one) and without a bubble, and the
\* export saves its document.
C7_NoMatchNoBubble ==
    /\ \A i \in 1..Len(calls) :
          calls[i].msg = 0
              <=> /\ ExplicitRef(PostOfCall(calls[i]), TheRefs) = 0
                  /\ ClaimedPool(calls[i].type) = <<>>
    /\ pc = "saved" =>
          /\ download # Null
          /\ \A i \in 1..Len(calls) :
                calls[i].msg = 0
                    => /\ HasBlock("postInfo", calls[i].d, calls[i].p)
                       /\ HasBlock("cta", calls[i].d, calls[i].p)
                             <=> PostOfCall(calls[i]).cta # <<>>
                       /\ ~HasBlock("bubble", calls[i].d, calls[i].p)

C7_Witness ==
    /\ pc = "saved"
    /\ download # Null
    /\ \E i, j \in 1..Len(calls) :
          /\ calls[i].msg = 0 /\ PostOfCall(calls[i]).cta # <<>>
          /\ calls[j].msg = 0 /\ PostOfCall(calls[j]).cta = <<>>

\* The content blocks of the exports: everything drawn but the rows autoTable
\* lays out itself and the footers.
IsContent(b) == b.kind \notin {"tableRow", "footer"}

\* C8 as stated: a page is opened before a block exactly when the cursor plus
\* the block's own height exceeds the bottom limit, and the block is then
\* placed at the top start of the new page.
C8_BreakOnOwnHeight ==
    \A i \in 1..Len(Log) :
        IsContent(Log[i])
            => /\ Log[i].broke <=> Log[i].from + Log[i].h > BottomLimit
               /\ Log[i].broke => Log[i].top = TopStart
               /\ ~Log[i].broke => Log[i].top = Log[i].from

FooterOf(i) == {j \in Drawn("footer") : Log[j].page = i}

\* C9: footers are drawn only after the last content block, and then every
\* page i of the document carries exactly one footer, reading Page i/total
\* with total the final number of pages.
C9_Footers ==
    /\ \A i \in Drawn("footer") :
          /\ Finished
          /\ \A j \in 1..Len(Log) : j > i => Log[j].kind = "footer"
          /\ Log[i].page \in 1..doc.pages
          /\ Log[i].total = doc.pages
    /\ Finished => \A i \in 1..doc.pages : Cardinality(FooterOf(i)) = 1

\* A finished document of several pages.
C9_Witness == pc = "pSaved" /\ doc.pages >= 3 /\ Drawn("tableRow") # {}

Key(kind, dd, pp, kk) == <<kind, dd, pp, kk>>
KeyOf(b) == Key(b.kind, b.d, b.p, b.k)

CallAt(dd, pp) == CHOOSE c \in Range(calls) : c.d = dd /\ c.p = pp

\* The block order the claim gives, for the export's plan.
ExpectedPost(dd, pp) ==
    <<Key("postInfo", dd, pp, 0)>>
    \o (IF PostsOf(dd)[pp].cta # <<>> THEN <<Key("cta", dd, pp, 0)>> ELSE <<>>)
    \o (IF CallAt(dd, pp).msg # 0 THEN <<Key("bubble", dd, pp, 0)>> ELSE <<>>)

RECURSIVE ExpectedPosts(_, _)
ExpectedPosts(dd, pp) ==
    IF pp > Len(PostsOf(dd)) THEN <<>>
    ELSE ExpectedPost(dd, pp) \o ExpectedPosts(dd, pp + 1)

RECURSIVE ExpectedDays(_)
ExpectedDays(dd) ==
    IF dd > Len(Days) THEN <<>>
    ELSE <<Key("dayHeader", dd, 0, 0)>> \o ExpectedPosts(dd, 1) \o ExpectedDays(dd + 1)

ExpectedBlocks ==
    <<Key("title", 0, 0, 0)>>
    \o (IF ThePlan.plan_summary # <<>> THEN <<Key("summary", 0, 0, 0)>> ELSE <<>>)
    \o (IF ThePlan.weekly_themes # <<>>
        THEN <<Key("themesHeading", 0, 0, 0), Key("tableRow", 0, 0, 1)>>
             \o [w \in 1..Len(ThePlan.weekly_themes) |-> Key("tableRow", 0, 0, w + 1)]
        ELSE <<>>)
    \o (IF Days # <<>> THEN <<Key("dailyHeading", 0, 0, 0)>> ELSE <<>>)
    \o ExpectedDays(1)
    \o (IF ThePlan.kpis # <<>>
        THEN <<Key("kpiHeading", 0, 0, 0)>>
             \o [n \in 1..Len(ThePlan.kpis) |-> Key("kpi", 0, 0, n)]
        ELSE <<>>)

ContentKeys ==
    LET content == SelectSeq(Log, LAMBDA b : b.kind # "footer")
    IN [i \in 1..Len(content) |-> KeyOf(content[i])]

\* C10: the plan export draws title, summary, the weekly-themes table with a
\* head row and one row per week, then day by day the day header and post by
\* post the info paragraph, the CTA line if any and the bubble if any, then
\* the KPI list.
C10_BlockOrder ==
    (exp # Null /\ pc \in {"footer", "save", "saved"}) => ContentKeys = ExpectedBlocks

C10_Witness ==
    /\ pc = "saved"
    /\ exp # Null
    /\ Len(Days) >= 2
    /\ \A kind \in {"summary", "tableRow", "cta", "bubble", "kpi"} : Drawn(kind) # {}
    /\ \E i \in 1..Len(calls) : calls[i].msg = 0

\* The lines of kind drawn in the bubble b.
LinesOfKind(b, kind) == {j \in 1..Len(b.lines) : b.lines[j].kind = kind}

\* The number of lines the sanitized text of message m wraps to at the width
\* the export gives the bubble; an empty text has no line.
WrappedLines(m) ==
    LET clean == Trim(stripEmoji(Msg(m).text_content))
    IN IF clean = <<>> THEN 0 ELSE Len(splitTextToSize(clean, contentWidth - 16 - 12))

\* Whether reactions_json of message m parses to a non-empty list.
HasReactions(m) == Msg(m).reactions_json = "[r,r]"

\* C11: the bubble height is 3 + 3 of padding, 5 for the channel name, 4 for
\* a content type other than text, 4 for a forwarded-from label, 3.5 per
\* wrapped text line up to 8, 3.5 for the ellipsis exactly when the text wraps
\* to more than 8 lines, 4.5 exactly when the reaction list is non-empty (an
\* unparsable list counts as empty) and 5 for the footer; at most 8 text lines
\* and one ellipsis line are drawn.
C11_BubbleHeightSum ==
    \A i \in Drawn("bubble") :
        LET m == Log[i].msg
            n == WrappedLines(m)
        IN /\ Log[i].bh =
                 6 + 6 + 10
                 + (IF Msg(m).content_type \notin {"", "text"} THEN 8 ELSE 0)
                 + (IF Msg(m).forward_from # <<>> THEN 8 ELSE 0)
                 + 7 * (IF n <= 8 THEN n ELSE 8)
                 + (IF n > 8 THEN 7 ELSE 0)
                 + (IF HasReactions(m) THEN 9 ELSE 0)
                 + 10
           /\ Cardinality(LinesOfKind(Log[i], "text")) = (IF n <= 8 THEN n ELSE 8)
           /\ Cardinality(LinesOfKind(Log[i], "ellipsis")) = (IF n > 8 THEN 1 ELSE 0)
           /\ Cardinality(LinesOfKind(Log[i], "reactions")) = (IF HasReactions(m) THEN 1 ELSE 0)

\* A bubble with more than eight lines and reactions, and a bubble whose
\* reaction list does not parse.
C11_Witness ==
    /\ \E i \in Drawn("bubble") : WrappedLines(Log[i].msg) > 8 /\ HasReactions(Log[i].msg)
    /\ \E i \in Drawn("bubble") : Msg(Log[i].msg).reactions_json = "{bad"

\* The view count as the claim formats it.
ClaimedViews(n) ==
    IF n >= 1000000 THEN Shown((n + 50000) \div 1000000, Some(((n + 50000) \div 100000) % 10), "M")
    ELSE IF n >= 1000 THEN Shown((n + 50) \div 1000, Some(((n + 50) \div 100) % 10), "K")
    ELSE Shown(n, Null, "")

\* C12: the footer of a bubble shows a view count of at least 1,000,000 as
\* millions with one decimal and M, one of at least 1,000 as thousands with
\* one decimal and K, and a smaller one as the integer.
C12_ViewsThresholds ==
    \A i \in Drawn("bubble") :
        Msg(Log[i].msg).views_count # NoViews
            => Log[i].views = ClaimedViews(Msg(Log[i].msg).views_count)

\* C13: formatNumber gives the integer below 1000, thousands with one decimal
\* and K from 1000 up to 999999, millions with one decimal and M from 1000000;
\* 999 gives 999, 1000 gives 1.0K, 999999 gives 1000.0K and 1000000 gives 1.0M.
C13_FormatNumber ==
    (label # Null /\ num # NoViews)
        => /\ Val(label) = ClaimedViews(num)
           /\ num = 999 => Val(label) = Shown(999, Null, "")
           /\ num = 1000 => Val(label) = Shown(1, Some(0), "K")
           /\ num = 999999 => Val(label) = Shown(1000, Some(0), "K")
           /\ num = 1000000 => Val(label) = Shown(1, Some(0), "M")

C13_Witness == num = 999999 /\ label = Some(Shown(1000, Some(0), "K"))

\* The lines a bubble of the export must show for message m: those of the
\* text stripped, trimmed and only then wrapped.
SanitizedLines(m) ==
    LET clean == Trim(stripEmoji(Msg(m).text_content))
    IN IF clean = <<>> THEN <<>> ELSE splitTextToSize(clean, contentWidth - 16 - 2 * pad)

\* The height of a bubble for message m that has no text and no ellipsis line.
HeightWithoutText(m) ==
    2 * pad + 10 + 10
    + (IF HasTypeLabel(Msg(m)) THEN 8 ELSE 0)
    + (IF Msg(m).forward_from # <<>> THEN 8 ELSE 0)
    + (IF Len(BubbleReactions(Msg(m))) > 0 THEN 9 ELSE 0)

\* C14: the text is stripped and trimmed before it is wrapped: the height and
\* the drawn lines count the lines of the sanitized text, and a text of only
\* stripped characters or spaces gives no text line and no ellipsis.
C14_SanitizedBeforeWrap ==
    \A i \in Drawn("bubble") :
        LET n == Len(SanitizedLines(Log[i].msg))
            shown == IF n > 8 THEN 9 ELSE n
        IN /\ Cardinality(LinesOfKind(Log[i], "text")) + Cardinality(LinesOfKind(Log[i], "ellipsis"))
                 = shown
           /\ Log[i].bh = HeightWithoutText(Log[i].msg) + 7 * shown

\* A bubble for a text of emoji only, and one for a text that wraps to fewer
\* lines once its emoji are stripped.
C14_Witness ==
    /\ \E i \in Drawn("bubble") :
          Msg(Log[i].msg).text_content # <<>> /\ SanitizedLines(Log[i].msg) = <<>>
    /\ \E i \in Drawn("bubble") :
          /\ SanitizedLines(Log[i].msg) # <<>>
          /\ Len(SanitizedLines(Log[i].msg)) < Len(splitTextToSize(Msg(Log[i].msg).text_content, contentWidth - 16 - 2 * pad))

\* The kinds of block drawn so far.
KindsDrawn == {Log[i].kind : i \in 1..Len(Log)}

\* A plan export has drawn all its content.
PlanDrawn == exp # Null /\ pc \in {"footer", "save", "saved"}

\* C15 as stated: the document of a plan with zero days contains only the
\* title, the summary and the KPI blocks, no day header and no bubble, and has
\* exactly one page.
C15_Original ==
    (PlanDrawn /\ Days = <<>>)
        => /\ KindsDrawn \subseteq {"title", "summary", "kpiHeading", "kpi", "footer"}
           /\ doc.pages = 1

\* C15 as amended: the document of a plan with zero days contains only the
\* title, the summary, the weekly-themes heading and table and the KPI heading
\* and lines, each when present; it has no daily-schedule heading, no day
\* header, no post and no bubble, and getRefMessage is never called; it has
\* one page more for every page check of a themes or KPI block (or of the
\* table) that fires, so exactly one page when none fires.
C15_ZeroDays ==
    (PlanDrawn /\ Days = <<>>)
        => /\ KindsDrawn \subseteq
                 {"title", "summary", "themesHeading", "tableRow", "kpiHeading", "kpi", "footer"}
           /\ "title" \in KindsDrawn
           /\ "summary" \in KindsDrawn <=> ThePlan.plan_summary # <<>>
           /\ "tableRow" \in KindsDrawn <=> ThePlan.weekly_themes # <<>>
           /\ Cardinality(Drawn("kpi")) = Len(ThePlan.kpis)
           /\ calls = <<>>
           /\ doc.pages = 1 + Cardinality({i \in 1..Len(Log) : Log[i].broke})

\* A saved zero-day document with summary, themes and KPIs on one page.
C15_Witness ==
    /\ pc = "saved" /\ exp # Null /\ Days = <<>>
    /\ ThePlan.daily_plan = <<>>
    /\ {"summary", "tableRow", "kpi"} \subseteq KindsDrawn
    /\ doc.pages = 1

PlanPhases ==
    {"fetch", "title", "summary", "themes", "daily", "day", "post", "reference",
     "dayEnd", "kpis", "kpi", "footer", "save", "saved"}
PlanExporting == exp # Null /\ pc \in PlanPhases
AllPosts == {<<i, j>> \in (1..MaxDays) \X (1..2) : i <= Len(Days) /\ j <= Len(PostsOf(i))}
\* No message is usable as a reference: the filtered feed is empty and no post
\* has an explicit reference that resolves.
NoUsableReference ==
    /\ pc # "fetch" /\ msgList = <<>>
    /\ \A q \in AllPosts : ExplicitRef(PostsOf(q[1])[q[2]], TheRefs) = 0

\* C16: missing or empty optional inputs never stop a plan export: with no
\* usable reference message it draws no bubble, with no weekly themes neither
\* the themes heading nor a table row, with no KPIs neither the KPI heading
\* nor a KPI line, and the export that reaches doc.save has saved its document.
C16_OptionalInputs ==
    PlanExporting
        => /\ NoUsableReference => Drawn("bubble") = {}
           /\ ThePlan.weekly_themes = <<>>
                 => Drawn("themesHeading") = {} /\ Drawn("tableRow") = {}
           /\ ThePlan.kpis = <<>> => Drawn("kpiHeading") = {} /\ Drawn("kpi") = {}
           /\ pc = "saved" => download = Some("plan")
\* A saved export of a plan with days and posts, without themes and KPIs, for
\* which no message was usable.
C16_Witness ==
    /\ PlanExporting /\ pc = "saved" /\ download = Some("plan")
    /\ NoUsableReference /\ calls # <<>>
    /\ ThePlan.weekly_themes = <<>> /\ ThePlan.kpis = <<>>
    /\ Drawn("postInfo") # {}

\* C17: when the request for the channel feed fails during a plan export,
\* the failure is shown as an error and the export stops: nothing is drawn and
\* no document is saved by that export.
C17_FeedFailureStopsExport ==
    (PlanExporting /\ feedFailed)
        => /\ planError # Null
           /\ Log = <<>>
           /\ download = Null

\* C18: after a generatePlan attempt has ended in a domain error, an invalid
\* response or a transport failure, the page displays the stored error
\* message, whether or not a plan of an earlier generation is shown.
C18_FailureDisplayed ==
    (~planLoading /\ planError # Null) => ShownPlanError = planError

\* C19: a generatePlan attempt that ends with an error message (domain
\* error, with or without plan data, invalid response, transport failure)
\* leaves the stored plan and the stored reference list as they were; the two
\* change only in the step that handles a response, both taken from one
\* response that reports no error and carries a plan, and no error is stored
\* by that step.
C19_NoPartialPlan ==
    [][ /\ (planReq /\ ~planReq' /\ planError' # Null)
            => UNCHANGED <<plan, referenceMessages>>
        /\ (plan' # plan \/ referenceMessages' # referenceMessages)
            => /\ planReq /\ ~planReq' /\ planError' = Null
               /\ \E r \in PlanResponses(server) :
                     /\ r.status # "error" /\ r.plan # Null
                     /\ plan' = r.plan
                     /\ referenceMessages' = r.reference_messages ]_vars
\* A plan is stored and a later attempt was answered by the error response
\* that carries plan data: the stored plan is not the one of that response.
C19_Witness ==
    /\ ~planLoading /\ plan # Null /\ plan # Some(ScenarioPlan)
    /\ referenceMessages # Some(<<11, 12>>)
    /\ planError = Some("Erreur de generation, reessayez.")

\* The first getRefMessage call of each content type.
FirstCalls ==
    {i \in 1..Len(calls) : \A j \in 1..(i - 1) : calls[j].type # calls[i].type}

\* C20: the counters, the partitions, the document and the cursor belong to
\* one export call.  A plan export continues after the feed request with
\* counters at 0, partitions built from its own message list, an empty
\* document and the cursor at the top, whether or not a persona export ran
\* while it waited; the first call of every content type reads counter 0; a
\* persona export starts with its own one-block document, also when it
\* runs during the wait of a plan export; and a plan export gives the same
\* assignments and the same blocks on the same pages as the export before it
\* with the same plan, reference list and message list, whichever of the two
\* was overlapped by a persona export.
C20_RunsDoNotInterfere ==
    /\ (PlanExporting /\ pc = "title")
          => /\ typeCounters = NoCounters
             /\ \A t \in Types : typeCounters[t] = 0
             /\ byType = GroupByType(msgList, NoGroups)
             /\ doc = NewDoc /\ y = TopStart
    /\ PlanExporting
          => /\ \A i \in FirstCalls : calls[i].counter = 0
             /\ \A t \in Types : typeCounters[t] = Len(RoundRobinOfType(t))
    /\ pc = "pSummary" => Len(Log) = 1 /\ Log[1].top = TopStart /\ doc.pages = 1
    /\ (pc = "saved" /\ SameInputs)
          => /\ Val(prev).assign = Assign
             /\ Val(prev).log = Log
\* An export that was overlapped by a persona export, after an export of the
\* same inputs that ran alone; it used the round-robin and broke a page.
C20_Witness ==
    /\ pc = "saved" /\ SameInputs
    /\ overlapped /\ ~Val(prev).overlapped
    /\ \E i \in 1..Len(calls) : calls[i].via = "roundrobin" /\ calls[i].counter > 0
    /\ \E i \in 1..Len(Log) : Log[i].broke

\* The state of the page an export reads.
PageInputs == <<plan, referenceMessages, aiPersona, planError, planLoading, aiLoading>>

\* C21: a step of a plan export or of a persona export (a step that changes
\* the handler's locals, the document, the busy flag or the download) leaves
\* the stored plan, the reference list, the AI persona, the plan error and
\* the two generation flags as they are.
C21_ExportChangesNoInput ==
    [][ exportVars' # exportVars => UNCHANGED PageInputs ]_vars
\* After a finished plan export the page still holds the plan and the
\* reference list that were exported, the error of an earlier failed
\* regeneration and the AI persona.
C21_Witness ==
    /\ pc = "idle" /\ prev # Null /\ ~pdfLoading
    /\ plan = Some(Val(prev).plan) /\ referenceMessages = Val(prev).refs
    /\ planError # Null /\ aiPersona # Null

StemOf(kind) == Val(saved[kind]).stem
\* The number of characters of the title that lie outside the Basic
\* Multilingual Plane.
AstralCount == IF title = Null THEN 0 ELSE Cardinality({i \in 1..Len(Val(title)) : Val(title)[i] = "emoji"})
HasTitle == title # Null /\ Val(title) # <<>>

\* C22 as stated: the name has as many characters after the prefix as the
\* title, each character outside a-z, A-Z, 0-9 replaced by one underscore.
C22_Original ==
    \A kind \in {"plan", "persona"} :
        (saved[kind] # Null /\ HasTitle)
            => /\ Len(StemOf(kind)) = Len(Val(title))
               /\ \A i \in 1..Len(Val(title)) :
                     StemOf(kind)[i] = IF Val(title)[i] \in Alphanumeric THEN Val(title)[i] ELSE "_"

\* C22: the saved name is the prefix plan-30j- or persona-, the title with
\* every UTF-16 code unit outside a-z, A-Z, 0-9 replaced by one underscore
\* (so a character outside the Basic Multilingual Plane gives two), the word
\* channel when the title is missing or empty, and .pdf; the two kinds of
\* document get the same middle part for the same title.
C22_FileName ==
    /\ \A kind \in {"plan", "persona"} :
          saved[kind] # Null
              => /\ Val(saved[kind]).prefix = (IF kind = "plan" THEN "plan-30j-" ELSE "persona-")
                 /\ Val(saved[kind]).ext = ".pdf"
                 /\ \A i \in 1..Len(StemOf(kind)) : StemOf(kind)[i] \in Alphanumeric \cup {"_"}
                 /\ ~HasTitle => StemOf(kind) = <<"c", "h", "a", "n", "n", "e", "l">>
                 /\ HasTitle =>
                       /\ Len(StemOf(kind)) = Len(Val(title)) + AstralCount
                       /\ \A i \in 1..Len(StemOf(kind)) :
                             LET u == CodeUnits(Val(title))[i]
                             IN StemOf(kind)[i] = "_" <=> u \notin Alphanumeric
                       /\ \A i \in 1..Len(StemOf(kind)) :
                             StemOf(kind)[i] # "_" => StemOf(kind)[i] = CodeUnits(Val(title))[i]
    /\ (saved["plan"] # Null /\ saved["persona"] # Null) => StemOf("plan") = StemOf("persona")
\* Both documents saved for a title with a letter, an emoji and a space.
C22_Witness ==
    /\ saved["plan"] # Null /\ saved["persona"] # Null
    /\ title = Some(<<"a", "emoji", " ">>)
    /\ StemOf("plan") = <<"a", "_", "_", "_">>

RECURSIVE Flatten(_)
Flatten(ls) == IF ls = <<>> THEN <<>> ELSE Head(ls) \o Flatten(Tail(ls))
\* The words of a text or of the re-joined lines once whitespace is
\* collapsed: the non-empty ones, in order.
NonEmpty(ws) == SelectSeq(ws, LAMBDA w : w > 0)

\* C23: the lines of the wrapper, re-joined with single spaces, have the
\* words of the whitespace-collapsed input: no word is in pieces on two
\* lines and nothing is dropped.
C23_WrapRoundTrip ==
    wrapLines # Null => NonEmpty(Flatten(Val(wrapLines))) = NonEmpty(SplitWords(wrapText, 0))

PageBefore(i) == IF i = 1 THEN 1 ELSE Log[i - 1].page
Tall(i) == Log[i].check # NoCheck /\ Log[i].h > Printable

\* C24: a block taller than the printable area does not make the export fail
\* or loop: every page-break check opens one page or none, a taller block is
\* placed where the check left the cursor and runs over the bottom limit, and
\* an export that has its messages reaches the saved document.
C24_TallBlockPlaced ==
    /\ [](\A i \in 1..Len(Log) :
             /\ Log[i].check # NoCheck =>
                   Log[i].page = PageBefore(i) + (IF Log[i].broke THEN 1 ELSE 0)
             /\ Tall(i) =>
                   /\ Log[i].top = (IF Log[i].broke THEN TopStart ELSE Log[i].from)
                   /\ Log[i].top + Log[i].h > BottomLimit)
    /\ (pc = "title" ~> (pc = "saved" /\ download = Some("plan")))

\* A saved plan document with a block taller than the printable area, placed
\* below the top of its page, and the next checked block on the page after it.
C24_Witness ==
    /\ pc = "saved"
    /\ \E i \in 1..Len(Log) :
          /\ Tall(i)
          /\ Log[i].top > TopStart
          /\ \E j \in (i + 1)..Len(Log) :
                Log[j].broke /\ Log[j].page = Log[i].page + 1 /\ Log[j].top = TopStart

\* C30: the busy flag of the plan export is true exactly while an export is
\* in progress, and after every started export that has its feed answer,
\* whatever the drawing code then does, the flag is false again.
C30_BusyFlagReturns ==
    /\ [](pdfLoading <=> exp # Null)
    /\ ((pdfLoading /\ pc # "fetch") ~> ~pdfLoading)

\* C25: a day header stays on the current page whenever the cursor plus the
\* 15 mm of its own page check is within the bottom limit, whatever follows
\* it: it is not moved to the page of its first post, and the export that
\* leaves a header last on a page goes on to the saved document with a
\* header for every day.
C25_HeaderNoLookahead ==
    /\ \A i \in Drawn("dayHeader") :
          /\ Log[i].broke <=> Log[i].from + 30 > BottomLimit
          /\ ~Log[i].broke => Log[i].page = PageBefore(i) /\ Log[i].top = Log[i].from
    /\ pc = "saved" => Cardinality(Drawn("dayHeader")) = Len(Days)

\* A saved document in which a day header is the last block of a page and the
\* first post of that day starts the next page.
C25_Witness ==
    /\ pc = "saved"
    /\ \E i \in Drawn("dayHeader") :
          /\ ~Log[i].broke
          /\ i < Len(Log)
          /\ Log[i + 1].kind = "postInfo"
          /\ Log[i + 1].d = Log[i].d /\ Log[i + 1].p = 1
          /\ Log[i + 1].broke
          /\ Log[i + 1].page = Log[i].page + 1

CallBefore(a, b) == a.d < b.d \/ (a.d = b.d /\ a.p < b.p)
PlannedPosts == SumSeq([i \in 1..Len(Days) |-> Len(PostsOf(i))])
RoundRobinCalls == {i \in 1..Len(calls) : calls[i].via = "roundrobin"}
EarlierOfType(i) ==
    {j \in 1..(i - 1) : calls[j].type = calls[i].type /\ calls[j].via = "roundrobin"}

\* C26: during a plan export getRefMessage is called once for every planned
\* post, in plan order; the counter a call finds for its type is the number of
\* earlier round-robin matches of that type, so a counter moves by one on a
\* round-robin match and not otherwise, and the counters add up to the number
\* of round-robin matches.
C26_OneCallPerPost ==
    PlanExporting =>
        /\ \A i, j \in 1..Len(calls) : i < j => CallBefore(calls[i], calls[j])
        /\ \A i \in 1..Len(calls) :
              /\ calls[i].d \in 1..Len(Days)
              /\ calls[i].p \in 1..Len(PostsOf(calls[i].d))
              /\ calls[i].counter = Cardinality(EarlierOfType(i))
        /\ SumSeq([i \in 1..3 |-> typeCounters[<<"text", "photo", "video">>[i]]])
              = Cardinality(RoundRobinCalls)
        /\ pc \in {"kpis", "kpi", "footer", "save", "saved"} => Len(calls) = PlannedPosts

\* A saved export of two days with a call resolved by an explicit reference
\* between two round-robin matches of one type.
C26_Witness ==
    /\ pc = "saved"
    /\ Len(Days) = 2
    /\ \E i, j \in RoundRobinCalls :
          /\ i < j /\ calls[i].type = calls[j].type
          /\ \E e \in (i + 1)..(j - 1) : calls[e].via = "explicit"

\* The pool of a post type that has no partition of its own.
FallbackPool == IF Partition("text") # <<>> THEN Partition("text") ELSE msgList

\* C27: the round-robin counter belongs to the post type, not to the pool:
\* for a type without a partition of its own, the round-robin post of that
\* type that has k earlier round-robin posts of the same type gets element
\* k mod L of the fallback pool of length L, however many posts of other
\* types were matched from that pool before it.
C27_CounterPerType ==
    \A i \in RoundRobinCalls :
        Partition(calls[i].type) = <<>>
            => calls[i].msg
                 = FallbackPool[(Cardinality(EarlierOfType(i)) % Len(FallbackPool)) + 1]

\* A photo or video post without a partition of its own gets the first
\* message of the text partition after a text post got the same message and
\* a second text post the next one.
C27_Witness ==
    \E i \in RoundRobinCalls :
        /\ calls[i].type # "text"
        /\ Partition(calls[i].type) = <<>>
        /\ Len(FallbackPool) > 1
        /\ EarlierOfType(i) = {}
        /\ calls[i].msg = FallbackPool[1]
        /\ \E j, l \in RoundRobinCalls :
              /\ j < l /\ l < i
              /\ calls[j].type = "text" /\ calls[l].type = "text"
              /\ calls[j].msg = FallbackPool[1]
              /\ calls[l].msg = FallbackPool[2]

StartPlan == Val(exp).plan
StartRefs == Val(exp).refs
StartPost(c) == StartPlan.daily_plan[c.d].posts[c.p]

\* C28: a plan export works on the plan and the reference list the page held
\* when the export was started, also when a new plan is stored while the
\* export waits for the feed: every post it handles is a post of that plan,
\* an explicit reference is resolved in that reference list, and the pair
\* does not change while the export runs.
C28_ExportKeepsItsInputs ==
    /\ [](PlanExporting =>
            /\ \A i \in 1..Len(calls) :
                  /\ calls[i].d \in 1..Len(StartPlan.daily_plan)
                  /\ calls[i].p \in 1..Len(StartPlan.daily_plan[calls[i].d].posts)
                  /\ calls[i].type = PostType(StartPost(calls[i]))
                  /\ calls[i].via = "explicit" <=> ExplicitRef(StartPost(calls[i]), StartRefs) # 0
                  /\ calls[i].via = "explicit"
                        => calls[i].msg = ExplicitRef(StartPost(calls[i]), StartRefs)
            /\ pc = "saved" =>
                  /\ Cardinality(Drawn("dayHeader")) = Len(StartPlan.daily_plan)
                  /\ Len(calls) = SumSeq([i \in 1..Len(StartPlan.daily_plan) |->
                                            Len(StartPlan.daily_plan[i].posts)]))
    /\ [][(pc = "idle" /\ pc' = "fetch")
             => exp' = Some([plan |-> Val(plan), refs |-> referenceMessages])]_vars
    /\ [][(exp # Null /\ exp' # Null) => exp' = exp]_vars

\* A saved export during whose feed request another plan with another
\* reference list was stored, and in which a post has an explicit reference
\* that the stored list resolves to another message.
C28_Witness ==
    /\ pc = "saved"
    /\ plan # Some(StartPlan)
    /\ referenceMessages # StartRefs
    /\ \E i \in 1..Len(calls) :
          /\ calls[i].via = "explicit"
          /\ ExplicitRef(StartPost(calls[i]), referenceMessages) # calls[i].msg

\* C29: the plan the page holds was generated for the channel the route
\* names, and an export puts together a plan, a feed and a title of one
\* channel.
C29_PlanOfShownChannel ==
    /\ planFor # Null => Val(planFor) = routeId
    /\ exported # Null =>
          /\ Val(exported).plan = Val(exported).feed
          /\ Val(exported).plan = Val(exported).title

====
